---------------------------- MODULE Spec2Model ----------------------------
(***************************************************************************)
(* A model of the RPC-III durability-signal engine (galuszkm/RPC3):        *)
(*   - the rainflow engine        (src/src/rpc3/src/rainflow.ts)           *)
(*   - the equivalent-signal builder (src/src/rpc3/src/channel.ts, the     *)
(*     eq_dmg_signal part, lines 112-685)                                  *)
(*   - the RPC-III codec          (src/unnamed/part_003, rpc.ts)           *)
(*   - the Channel class          (src/unnamed/part_002, lines 5-100)      *)
(*   - the page's contexts and channel table (src/unnamed/part_006,        *)
(*     part_007, part_010)                                                 *)
(*                                                                         *)
(* Float64Array / number[] values are TLA+ sequences (1-based; the code's  *)
(* 0-based index i is position i+1).  Index VALUES that the code stores    *)
(* (revIdx, blocksIndexed) keep the code's 0-based numbering.              *)
(***************************************************************************)
EXTENDS Integers, Sequences, FiniteSets, TLC

VARIABLES
    rfCall,     \* rainflow engine: the call under way [op, arguments]
    rfRet,      \* rainflow engine: what the call returned (kind = "none" before)
    rfRetOpen,  \* rainflow engine: result of rainflow_counting(S, false, k)
    rfPc,       \* findRainflowCyclesStack: where the loops stand
    rfI,        \* findRainflowCyclesStack: number of reversals pushed (the code's i)
    rfStack,    \* findRainflowCyclesStack: stack
    rfCycles,   \* findRainflowCyclesStack: cycles
    eqPc,       \* eqDmgSignal: where the call stands
    eqCall,     \* eqDmgSignal: the arguments [rfList, repetitions, blocksNumber,
                \*   minNumOfCycles, slope]; the two arrays are dropped once parsed
    sColumns,    \* calculateEqSignal: sColumns, the cycles sorted by range
    sTotalDamage,    \* calculateEqSignal: sTotalDamage
    eqSig,       \* the rows being built, lowest block first
    eqSigMaxRed, \* scaleEquivalentSignalToMinimumCycles: the snapshot
    scaleIter,      \* number of times line 507 has subtracted 0.0001
    eqRet,      \* eqDmgSignal: what the call returned
    rpcPc,      \* codec: where the decode / encode / decode sequence stands
    rpc,        \* the RPC object that decodes the input file
    rpcRet,     \* what rpc.parse() did (kind = "none" before the call)
    written,    \* the bytes returned by rpc.write(rpc.Channels)
    newRpc,     \* the RPC object constructed on the written bytes
    newRpcRet,  \* what newRpc.parse() did
    chanValue,  \* Channel: value, the samples
    chanRepetitions, \* Channel: repetitions
    chanRf,     \* Channel: rf [reversals, revIdx, cycles, residuals, range_counts]
    chanCall,   \* Channel: the most recent method call and how it ended
    chanMin,    \* Channel: min
    chanMax,    \* Channel: max
    chanScale,  \* Channel: _scale
    ctxFiles,   \* FilesContext: files, the loaded RPC objects
    ctxChannels,      \* ChannelsContext: channels, the selected channels
    selectedChannels  \* ChannelTable: selectedChannels, the rows shown as selected

rfVars == <<rfCall, rfRet, rfRetOpen, rfPc, rfI, rfStack, rfCycles>>

eqVars == <<eqPc, eqCall, sColumns, sTotalDamage, eqSig, eqSigMaxRed, scaleIter, eqRet>>

codecVars == <<rpcPc, rpc, rpcRet, written, newRpc, newRpcRet>>

chanVars == <<chanValue, chanRepetitions, chanRf, chanCall, chanMin, chanMax, chanScale>>

uiVars == <<ctxFiles, ctxChannels, selectedChannels>>

vars == <<rfCall, rfRet, rfRetOpen, rfPc, rfI, rfStack, rfCycles,
          eqPc, eqCall, sColumns, sTotalDamage, eqSig, eqSigMaxRed, scaleIter, eqRet,
          rpcPc, rpc, rpcRet, written, newRpc, newRpcRet,
          chanValue, chanRepetitions, chanRf, chanCall, chanMin, chanMax, chanScale,
          ctxFiles, ctxChannels, selectedChannels>>

-----------------------------------------------------------------------------
(* Bounds of the model                                                     *)

\* loads (sample values, peaks, valleys, ranges) are drawn from 0..MaxLoad
MaxLoad == 3
\* longest time-history signal handed to rainflow_counting
MaxSignalLen == 5
\* largest number of [peak, valley] (or [range, count]) pairs in an input
MaxCycles == 2
\* repetition counts are drawn from 1..MaxRepets
MaxRepets == 2
\* bin budgets k are drawn from 1..MaxBins
MaxBins == 3
\* longest reversal sequence handed to concatenateReversals
MaxRevLen == 3

-----------------------------------------------------------------------------
(* Generic helpers                                                         *)

Abs(x) == IF x < 0 THEN -x ELSE x

MathMax(a, b) == IF a >= b THEN a ELSE b

MathMin(a, b) == IF a <= b THEN a ELSE b

\* Math.pow for a non-negative integer exponent
RECURSIVE MathPow(_, _)
MathPow(x, e) == IF e = 0 THEN 1 ELSE x * MathPow(x, e - 1)

\* all sequences over S of length lo..hi
SeqsOf(S, lo, hi) == UNION {[1..n -> S] : n \in lo..hi}

\* subarray(from, to) with 0-based from (inclusive) and to (exclusive)
subarray(a, from, to) == [i \in 1..MathMax(0, to - from) |-> a[from + i]]

\* utils.findMinMax: one scan; the empty array gives (+Infinity, -Infinity),
\* which no caller modelled here reads (callers test the length first)
RECURSIVE ScanMin(_, _, _)
ScanMin(arr, i, min) ==
    IF i > Len(arr) THEN min
    ELSE ScanMin(arr, i + 1, IF arr[i] < min THEN arr[i] ELSE min)

RECURSIVE ScanMax(_, _, _)
ScanMax(arr, i, max) ==
    IF i > Len(arr) THEN max
    ELSE ScanMax(arr, i + 1, IF arr[i] > max THEN arr[i] ELSE max)

findMinMax(arr) == [min |-> ScanMin(arr, 2, arr[1]), max |-> ScanMax(arr, 2, arr[1])]

\* utils.linspace: step = (stop - start) / (n - 1), arr[i] = start + step * i.
\* Every use below has (stop - start) a multiple of (n - 1), so the integer
\* division is exact.
linspace(start, stop, n) ==
    LET step == (stop - start) \div (n - 1)
    IN  [i \in 1..n |-> start + step * (i - 1)]

\* Array.prototype.sort((a, b) => b - a) of the keys of a Map: descending
RECURSIVE SortDesc(_)
SortDesc(S) ==
    IF S = {} THEN <<>>
    ELSE LET m == CHOOSE x \in S : \A y \in S : y <= x
         IN  <<m>> \o SortDesc(S \ {m})

\* Map.set(key, (Map.get(key) ?? 0) + inc); a Map is a function on its keys
MapAdd(map, key, inc) ==
    [x \in (DOMAIN map) \cup {key} |->
        IF x = key THEN (IF key \in DOMAIN map THEN map[key] ELSE 0) + inc
        ELSE map[x]]

EmptyMap == [x \in {} |-> 0]

-----------------------------------------------------------------------------
(* Rainflow engine, src/src/rpc3/src/rainflow.ts                           *)
(*                                                                         *)
(* findReversals replaces every sample by the midpoint of its bin, a       *)
(* multiple of (max - min) / (2k) away from min.  To keep these exact, the *)
(* reversal values of a signal counted with bin budget k are carried in    *)
(* units of 1 / (2k): the integer v stands for the real v / (2k).          *)

Unit(k) == 2 * k

\* a value returned normally / an exception raised
Returned(v) == [kind |-> "return", value |-> v]
Thrown(msg) == [kind |-> "throw", value |-> msg]
NoRet == [kind |-> "none", value |-> <<>>]

newReversalPair(val0, val1, idx0, idx1) == <<(<<val0, val1>>), (<<idx0, idx1>>)>>

\* lines 50-55: the 0-based j < n - 1 with z[j + 1] # z[j], ascending
RECURSIVE ChangeIndices(_, _)
ChangeIndices(z, j) ==
    IF j > Len(z) - 2 THEN <<>>
    ELSE (IF z[j + 2] # z[j + 1] THEN <<j>> ELSE <<>>) \o ChangeIndices(z, j + 1)

\* lines 78-86: m + 1 is a reversal when the slopes around it differ in sign
RECURSIVE SlopeChanges(_, _)
SlopeChanges(candZ, m) ==
    IF m >= Len(candZ) - 2 THEN <<>>
    ELSE LET d1 == candZ[m + 2] - candZ[m + 1]
             d2 == candZ[m + 3] - candZ[m + 2]
         IN  (IF d1 * d2 < 0 THEN <<m + 1>> ELSE <<>>) \o SlopeChanges(candZ, m + 1)

AppendLastCandidate(revIndices, nC) == Append(revIndices, nC - 1)

\* lines 30-46: every sample replaced by the midpoint of its bin.
\* dy = (max - min) / (2k) is (max - min) in units of 1 / (2k).
BinMidpoints(signal, k, min, max) ==
    LET y0 == min * Unit(k) - (max - min)
        y1 == max * Unit(k) + (max - min)
        boundaries == linspace(y0, y1, k + 2)
        binWidth == boundaries[2] - boundaries[1]
    IN  [j \in 1..Len(signal) |->
            LET binIdx == (signal[j] * Unit(k) - y0) \div binWidth
                idxClamped == MathMax(0, MathMin(k + 1, binIdx))
            IN  boundaries[1] + (binWidth \div 2) + idxClamped * binWidth]

\* lines 57-58: the position after the last change is a candidate too
WithLastChange(changes) == Append(changes, changes[Len(changes)] + 1)

\* lines 66-113: the reversals among the candidate points.  Lines 89-101: both
\* branches end with the last candidate appended (the largest index pushed
\* before is nC - 2).
ReversalsAmong(z, changeIndices) ==
    LET candZ == [m \in 1..Len(changeIndices) |-> z[changeIndices[m] + 1]]
        revIndices == AppendLastCandidate(<<0>> \o SlopeChanges(candZ, 0),
                                          Len(changeIndices))
    IN  <<[r \in 1..Len(revIndices) |-> candZ[revIndices[r] + 1]],
          [r \in 1..Len(revIndices) |-> changeIndices[revIndices[r] + 1]]>>

\* lines 48-62, on the binned signal z
ReversalsOfBinned(z) ==
    IF Len(ChangeIndices(z, 0)) = 0
    THEN newReversalPair(z[1], z[Len(z)], 0, Len(z) - 1)
    ELSE ReversalsAmong(z, WithLastChange(ChangeIndices(z, 0)))

\* returns <<reversal values, reversal indices>>
findReversals(signal, k) ==
    LET n == Len(signal)
    IN  IF n < 2
        THEN <<[j \in 1..n |-> signal[j] * Unit(k)], (<<0, n - 1>>)>>
        ELSE IF findMinMax(signal).max = findMinMax(signal).min
        THEN newReversalPair(signal[1] * Unit(k), signal[n] * Unit(k), 0, n - 1)
        ELSE ReversalsOfBinned(BinMidpoints(signal, k, findMinMax(signal).min,
                                            findMinMax(signal).max))

concatFloat64(a, b) == a \o b

\* the four sign cases of lines 160-174, and the throw of line 176
concatenateReversals(rev1, rev2) ==
    LET n1 == Len(rev1)
        n2 == Len(rev2)
    IN  IF n1 < 2 \/ n2 < 2
        THEN Returned(rev1 \o rev2)
        ELSE
        LET dRend == rev1[n1] - rev1[n1 - 1]
            dRstart == rev2[2] - rev2[1]
            dRjoin == rev2[1] - rev1[n1]
            t1 == dRend * dRstart
            t2 == dRend * dRjoin
        IN  IF t1 > 0 /\ t2 < 0
            THEN Returned(concatFloat64(rev1, rev2))
            ELSE IF t1 > 0 /\ t2 >= 0
            THEN Returned(concatFloat64(subarray(rev1, 0, n1 - 1), subarray(rev2, 1, n2)))
            ELSE IF t1 < 0 /\ t2 >= 0
            THEN Returned(concatFloat64(rev1, subarray(rev2, 1, n2)))
            ELSE IF t1 < 0 /\ t2 < 0
            THEN Returned(concatFloat64(subarray(rev1, 0, n1 - 1), rev2))
            ELSE Thrown("Invalid concatenation - repeated end/start value?")

\* lines 209-231: the while loop on the top four stack entries
RECURSIVE CloseTopCycles(_)
CloseTopCycles(sc) ==
    LET stack == sc[1]
        cycles == sc[2]
        n == Len(stack)
    IN  IF n < 4 THEN sc
        ELSE
        LET S0 == stack[n - 3]
            S1 == stack[n - 2]
            S2 == stack[n - 1]
            S3 == stack[n]
            dS1 == Abs(S1 - S0)
            dS2 == Abs(S2 - S1)
            dS3 == Abs(S3 - S2)
        IN  IF dS2 <= dS1 /\ dS2 <= dS3
            THEN CloseTopCycles(<<subarray(stack, 0, n - 3) \o <<S3>>,
                                  cycles \o <<S1, S2>>>>)
            ELSE sc

\* lines 205-207: push reversals[i], then close what closes
RECURSIVE PushReversals(_, _, _)
PushReversals(reversals, i, sc) ==
    IF i > Len(reversals) THEN sc
    ELSE PushReversals(reversals, i + 1,
                       CloseTopCycles(<<Append(sc[1], reversals[i]), sc[2]>>))

\* returns <<closedCycles, residue>>
findRainflowCyclesStack(reversals) ==
    LET sc == PushReversals(reversals, 1, <<(<<>>), (<<>>)>>)
    IN  <<sc[2], sc[1]>>

\* the four-point rule with < in place of <=
FourPointRuleStrict(stack) ==
    /\ Len(stack) >= 4
    /\ Abs(stack[Len(stack) - 1] - stack[Len(stack) - 2])
           < Abs(stack[Len(stack) - 2] - stack[Len(stack) - 3])
    /\ Abs(stack[Len(stack) - 1] - stack[Len(stack) - 2])
           < Abs(stack[Len(stack)] - stack[Len(stack) - 1])

\* lines 209-221: the four-point rule on the top four stack entries
FourPointRule(stack) ==
    /\ Len(stack) >= 4
    /\ Abs(stack[Len(stack) - 1] - stack[Len(stack) - 2])
           <= Abs(stack[Len(stack) - 2] - stack[Len(stack) - 3])
    /\ Abs(stack[Len(stack) - 1] - stack[Len(stack) - 2])
           <= Abs(stack[Len(stack)] - stack[Len(stack) - 1])

\* the top three entries popped and S3 not pushed back
StackPopThree(stack) == subarray(stack, 0, Len(stack) - 3)

\* line 227: stack.splice(n - 3, 2) takes S1 and S2 out and keeps S0 and S3
StackSplice(stack) == subarray(stack, 0, Len(stack) - 3) \o <<stack[Len(stack)]>>

\* as CloseAndCombine, but reporting what the closing pass leaves as residuals
CloseAndReportClosed(reversals, revIdx, cycles, residue, close_residuals) ==
    IF close_residuals /\ concatenateReversals(residue, residue).kind = "throw"
    THEN concatenateReversals(residue, residue)
    ELSE Returned([reversals |-> reversals, revIdx |-> revIdx,
                   cycles |-> cycles \o
                       (IF close_residuals
                        THEN findRainflowCyclesStack(
                                 concatenateReversals(residue, residue).value)[1]
                        ELSE <<>>),
                   residuals |->
                       IF close_residuals
                       THEN findRainflowCyclesStack(
                                concatenateReversals(residue, residue).value)[2]
                       ELSE residue])

\* lines 274-291, given the cycles and residue of the first extraction
CloseAndCombine(reversals, revIdx, cycles, residue, close_residuals) ==
    IF close_residuals /\ concatenateReversals(residue, residue).kind = "throw"
    THEN concatenateReversals(residue, residue)
    ELSE Returned([reversals |-> reversals, revIdx |-> revIdx,
                   cycles |-> cycles \o
                       (IF close_residuals
                        THEN findRainflowCyclesStack(
                                 concatenateReversals(residue, residue).value)[1]
                        ELSE <<>>),
                   residuals |-> residue])

ExtractAndClose(rev, close_residuals) ==
    CloseAndCombine(rev[1], rev[2], findRainflowCyclesStack(rev[1])[1],
                    findRainflowCyclesStack(rev[1])[2], close_residuals)

rainflow_counting(value, close_residuals, k) ==
    ExtractAndClose(findReversals(value, k), close_residuals)

\* lines 311-316: one Map.set per [peak, valley] pair
RECURSIVE RangeMapOfCycles(_, _, _, _)
RangeMapOfCycles(cycles, repets, i, rangeMap) ==
    IF i >= Len(cycles) THEN rangeMap
    ELSE LET start == cycles[i + 1]
             end == cycles[i + 2]
             rng == Abs(end - start)
         IN  RangeMapOfCycles(cycles, repets, i + 2, MapAdd(rangeMap, rng, repets))

\* lines 320-326: [range1, count1, range2, count2, ...]
FlattenRangeMap(uniqueRanges, rangeMap) ==
    [i \in 1..(2 * Len(uniqueRanges)) |->
        IF i % 2 = 1 THEN uniqueRanges[(i + 1) \div 2]
        ELSE rangeMap[uniqueRanges[i \div 2]]]

\* the keys left in ascending order
RECURSIVE SortAsc(_)
SortAsc(S) ==
    IF S = {} THEN <<>>
    ELSE LET m == CHOOSE x \in S : \A y \in S : x <= y
         IN  <<m>> \o SortAsc(S \ {m})

UniqueRangesAscending(rangeMap) == SortAsc(DOMAIN rangeMap)

\* line 318: Array.from(rangeMap.keys()).sort((a, b) => b - a)
UniqueRangesSorted(rangeMap) == SortDesc(DOMAIN rangeMap)

count_range_cycles(cycles, repets) ==
    FlattenRangeMap(UniqueRangesSorted(RangeMapOfCycles(cycles, repets, 0, EmptyMap)),
                    RangeMapOfCycles(cycles, repets, 0, EmptyMap))

\* lines 446-449: Math.max over the ranges, starting from 0
RECURSIVE MaxRangeOf(_, _, _)
MaxRangeOf(data, i, maxRange) ==
    IF i >= Len(data) THEN maxRange
    ELSE MaxRangeOf(data, i + 2, MathMax(maxRange, data[i + 1]))

\* line 456: range > (maxRange * gate) / 100, with gate a whole percentage
AboveGate(range, maxRange, gate) == range * 100 > maxRange * gate

\* lines 452-459: sum duplicates while filtering by the gate threshold
RECURSIVE GatedRangeMap(_, _, _, _, _)
GatedRangeMap(data, maxRange, gate, i, rangeMap) ==
    IF i >= Len(data) THEN rangeMap
    ELSE LET range == data[i + 1]
             count == data[i + 2]
         IN  GatedRangeMap(data, maxRange, gate, i + 2,
                 IF AboveGate(range, maxRange, gate)
                 THEN MapAdd(rangeMap, range, count) ELSE rangeMap)

RECURSIVE SumSeq(_, _)
SumSeq(a, n) == IF n = 0 THEN 0 ELSE a[n] + SumSeq(a, n - 1)

\* a quotient kept exact: [n, d] stands for n / d (d = 0: NaN or Infinity)
Quot(n, d) == [n |-> n, d |-> d]

\* the running sums of the counts without the leading 1
NcumFromZero(uniqueCycles) ==
    [i \in 1..(Len(uniqueCycles) + 1) |->
        IF i = 1 THEN 0 ELSE SumSeq(uniqueCycles, i - 1)]

\* lines 488-498: NcumRaw[0] = 1, then the running sums of the counts
NcumOf(uniqueCycles) ==
    [i \in 1..(Len(uniqueCycles) + 1) |->
        IF i = 1 THEN 1 ELSE SumSeq(uniqueCycles, i - 1)]

\* lines 489-497: DcumRaw[0] = 0, then the running sums of
\* damagePercent[i] = damageArray[i] / damageSum * 100
DcumOf(damageArray, damageSum) ==
    [i \in 1..(Len(damageArray) + 1) |->
        IF i = 1 THEN Quot(0, 1)
        ELSE Quot(SumSeq(damageArray, i - 1) * 100, damageSum)]

\* line 502: [uniqueRanges[0], ...uniqueRanges]; of an empty list this is
\* [undefined], stored in the Float64Array as NaN
RangeSteps(uniqueRanges) ==
    IF Len(uniqueRanges) = 0 THEN <<"NaN">>
    ELSE <<uniqueRanges[1]>> \o uniqueRanges

cumulative_rainflow_data(data, slope, gate) ==
    LET maxRange == MaxRangeOf(data, 0, 0)
        rangeMap == GatedRangeMap(data, maxRange, gate, 0, EmptyMap)
        uniqueRanges == SortDesc(DOMAIN rangeMap)
        len == Len(uniqueRanges)
        uniqueCycles == [i \in 1..len |-> rangeMap[uniqueRanges[i]]]
        damageArray == [i \in 1..len |-> MathPow(uniqueRanges[i], slope) * uniqueCycles[i]]
        damageSum == SumSeq(damageArray, len)
    IN  [range |-> RangeSteps(uniqueRanges),
         ncum |-> NcumOf(uniqueCycles),
         dcum |-> DcumOf(damageArray, damageSum),
         totalDamage |-> damageSum]

-----------------------------------------------------------------------------
(* Equivalent-signal builder, src/src/rpc3/src/channel.ts lines 112-685    *)
(*                                                                         *)
(* RainflowDataColumns is a set of parallel Float64Arrays; here it is one  *)
(* sequence of rows, row i holding the i-th entry of every column that the *)
(* builder reads (cumulDamage, cycleIndex and percCumDamage are written    *)
(* but never read).  An EquivalentSignalRow [range, mean, repetition,      *)
(* %damage, damage, blockMean] is a record with these fields.              *)
(*                                                                         *)
(* Loads are integers.  The ranges of the equivalent signal, which the     *)
(* scaling loop multiplies by 0.9999, 0.9998, ..., are carried in units of *)
(* 1 / FxOne and the means in units of 1 / (2 FxOne), so that range / 2    *)
(* and the mean of up to 6 cycles are exact; products are cut to the unit  *)
(* where a double is rounded to 53 bits.  A repetition is the pair of its  *)
(* integer part q and its fraction f in units of 1 / RepOne, or the        *)
(* Infinity or NaN that a division by a zero range gives.                  *)

FxOne == 2 * 120

RepOne == 5 * 144

\* line 507: scaleFactor -= 0.0001, the step being 1 / ScaleSteps
ScaleSteps == 10000

\* lines 183-199: one row per [peak, valley] pair
CycleRow(peak, valley, signalRepeats, slope) ==
    [range |-> Abs(peak - valley),
     damageOfCycle |-> signalRepeats * MathPow(Abs(peak - valley), slope),
     maxOfCycle |-> IF peak > valley THEN peak ELSE valley,
     cycleReptes |-> signalRepeats,
     minOfCycle |-> IF peak < valley THEN peak ELSE valley]

\* lines 182-203: the inner loop over one signal
RowsOfSignal(arr, signalRepeats, slope) ==
    [c \in 1..(Len(arr) \div 2) |->
        CycleRow(arr[2 * c - 1], arr[2 * c], signalRepeats, slope)]

\* lines 177-204: the outer loop over the signals
RECURSIVE RowsOfSignals(_, _, _, _)
RowsOfSignals(rfList, repetitions, slope, iSig) ==
    IF iSig > Len(rfList) THEN <<>>
    ELSE RowsOfSignal(rfList[iSig], repetitions[iSig], slope)
             \o RowsOfSignals(rfList, repetitions, slope, iSig + 1)

parseAllRainflowData(rfList, repetitions, slope) ==
    IF Len(rfList) # Len(repetitions)
    THEN Thrown("rfList and repetitions must be the same length.")
    ELSE IF \E i \in 1..Len(rfList) : Len(rfList[i]) % 2 # 0
    THEN Thrown("Float64Array has an odd length")
    ELSE Returned(RowsOfSignals(rfList, repetitions, slope, 1))

\* line 260: indices.sort((a, b) => range[a] - range[b]); Array.prototype.sort
\* is stable, so a row goes behind the rows of the same range
InsertByRange(sorted, row) ==
    LET before == Cardinality({i \in 1..Len(sorted) : sorted[i].range <= row.range})
    IN  subarray(sorted, 0, before) \o <<row>> \o subarray(sorted, before, Len(sorted))

RECURSIVE SortByRange(_, _)
SortByRange(columns, n) ==
    IF n = 0 THEN <<>>
    ELSE InsertByRange(SortByRange(columns, n - 1), columns[n])

RECURSIVE SumDamage(_, _, _)
SumDamage(columns, from, to) ==
    IF from > to THEN 0
    ELSE columns[to].damageOfCycle + SumDamage(columns, from, to - 1)

\* returns <<sortedColumns, totalDamage>>
sortRainflowColumns(columns) ==
    <<SortByRange(columns, Len(columns)),
      SumDamage(SortByRange(columns, Len(columns)), 1, Len(columns))>>

\* findMax / findMin of utils.ts on a non-empty array
findMax(arr) == ScanMax(arr, 2, arr[1])

findMin(arr) == ScanMin(arr, 2, arr[1])

\* lines 368-370: blocksIndexed.push(idx), then sort((a, b) => a - b)
SortedInsert(blocksIndexed, idx) ==
    LET before == Cardinality({i \in 1..Len(blocksIndexed) : blocksIndexed[i] <= idx})
    IN  subarray(blocksIndexed, 0, before) \o <<idx>>
            \o subarray(blocksIndexed, before, Len(blocksIndexed))

\* lines 341-348, in the order the two nested loops visit them: the pairs
\* <<lowerBlockBorderIn, a>> with a in (blocksIndexed[x], blocksIndexed[x + 1]]
RECURSIVE DivisionCandidates(_, _)
DivisionCandidates(blocksIndexed, x) ==
    IF x > Len(blocksIndexed) - 1 THEN <<>>
    ELSE [t \in 1..MathMax(0, blocksIndexed[x + 1] - blocksIndexed[x]) |->
             <<blocksIndexed[x], blocksIndexed[x] + t>>]
         \o DivisionCandidates(blocksIndexed, x + 1)

\* lines 333-338: nothing chosen yet
NoDivision ==
    [totalMaxSquare |-> 0, indexOfDivision |-> 0, squareHeight |-> 0,
     lowerBoundForAddingIn |-> 0]

\* lines 349-358: one candidate a of the block starting behind lower
TakeIfLarger(best, dmgRows, range, maxRangeVal, lower, a) ==
    IF SumDamage(dmgRows, lower + 2, a + 1) * (maxRangeVal - range[a + 1])
           >= best.totalMaxSquare
    THEN [totalMaxSquare |->
              SumDamage(dmgRows, lower + 2, a + 1) * (maxRangeVal - range[a + 1]),
          indexOfDivision |-> a,
          squareHeight |-> maxRangeVal - range[a + 1],
          lowerBoundForAddingIn |-> lower]
    ELSE best

RECURSIVE BestDivision(_, _, _, _, _, _)
BestDivision(cands, i, best, dmgRows, range, maxRangeVal) ==
    IF i > Len(cands) THEN best
    ELSE BestDivision(cands, i + 1,
             TakeIfLarger(best, dmgRows, range, maxRangeVal, cands[i][1], cands[i][2]),
             dmgRows, range, maxRangeVal)

\* lines 364-366: range[ab] += squareHeight for ab in (lower, indexOfDivision]
RaiseRanges(range, best) ==
    [p \in 1..Len(range) |->
        IF p - 1 > best.lowerBoundForAddingIn /\ p - 1 <= best.indexOfDivision
        THEN range[p] + best.squareHeight ELSE range[p]]

\* lines 332-371: the iz loop; range is the column of the clone being modified
RECURSIVE InsertBoundaries(_, _, _, _, _)
InsertBoundaries(dmgRows, range, maxRangeVal, blocksIndexed, iz) ==
    IF iz <= 0 THEN blocksIndexed
    ELSE InsertBoundaries(dmgRows,
             RaiseRanges(range,
                 BestDivision(DivisionCandidates(blocksIndexed, 1), 1, NoDivision,
                              dmgRows, range, maxRangeVal)),
             maxRangeVal,
             SortedInsert(blocksIndexed,
                 BestDivision(DivisionCandidates(blocksIndexed, 1), 1, NoDivision,
                              dmgRows, range, maxRangeVal).indexOfDivision),
             iz - 1)

RangeColumn(columns) == [i \in 1..Len(columns) |-> columns[i].range]

\* on a non-empty column set
insertBlockBoundaries(columns, blocksNumber) ==
    InsertBoundaries(columns, RangeColumn(columns), findMax(RangeColumn(columns)),
                     <<0, Len(columns) - 1>>, blocksNumber - 1)

\* blockDamage / Math.pow(range, slope) of a range R given in units of
\* 1 / FxOne; x / 0 is Infinity, 0 / 0 is NaN
RepetitionOf(blockDamage, R, slope) ==
    IF R = 0
    THEN [kind |-> IF blockDamage = 0 THEN "NaN" ELSE "Infinity", q |-> 0, f |-> 0]
    ELSE [kind |-> "number",
          q |-> (blockDamage * MathPow(FxOne, slope)) \div MathPow(R, slope),
          f |-> (((blockDamage * MathPow(FxOne, slope)) % MathPow(R, slope)) * RepOne)
                    \div MathPow(R, slope)]

\* lines 433-434: the sum of 2 * (maxOfCycle[i] - range[i] / 2) over (lower, upper]
RECURSIVE SumOfMeans2(_, _, _)
SumOfMeans2(columns, lowerIdx, upperIdx) ==
    IF upperIdx <= lowerIdx THEN 0
    ELSE 2 * columns[upperIdx + 1].maxOfCycle - columns[upperIdx + 1].range
             + SumOfMeans2(columns, lowerIdx, upperIdx - 1)

\* lines 439-448: the row of the block of the cycles (lowerIdx, upperIdx]
BlockRow(columns, lowerIdx, upperIdx, totalDamage, slope) ==
    LET blockDamage == SumDamage(columns, lowerIdx + 2, upperIdx + 1)
        finalRange == columns[upperIdx + 1].range
        blockMean == (SumOfMeans2(columns, lowerIdx, upperIdx) * FxOne)
                         \div (upperIdx - lowerIdx)
    IN  [range |-> finalRange * FxOne,
         mean |-> blockMean,
         repetition |-> RepetitionOf(blockDamage, finalRange * FxOne, slope),
         percentDamage |-> Quot(blockDamage * 100, totalDamage),
         blockDamage |-> blockDamage,
         blockMean |-> blockMean]

\* lines 418-450: one row per boundary pair that holds a cycle
RECURSIVE BlocksFrom(_, _, _, _, _)
BlocksFrom(columns, blocksIndexed, totalDamage, slope, b) ==
    IF b > Len(blocksIndexed) - 1 THEN <<>>
    ELSE (IF blocksIndexed[b + 1] - blocksIndexed[b] > 0
          THEN <<BlockRow(columns, blocksIndexed[b], blocksIndexed[b + 1],
                          totalDamage, slope)>>
          ELSE <<>>)
         \o BlocksFrom(columns, blocksIndexed, totalDamage, slope, b + 1)

buildEquivalentSignalBlocks(columns, blocksIndexed, totalDamage, slope) ==
    BlocksFrom(columns, blocksIndexed, totalDamage, slope, 1)

\* line 499: eqSignal.reduce((acc, i) => acc + i[2], 0) > minNumOfCycles.
\* A NaN term makes the sum NaN, which is greater than nothing; otherwise an
\* Infinity term makes it Infinity.
RECURSIVE SumQ(_, _)
SumQ(eqSignal, n) == IF n = 0 THEN 0 ELSE eqSignal[n].repetition.q + SumQ(eqSignal, n - 1)

RECURSIVE SumF(_, _)
SumF(eqSignal, n) == IF n = 0 THEN 0 ELSE eqSignal[n].repetition.f + SumF(eqSignal, n - 1)

CycleNoExceeds(eqSignal, minNumOfCycles) ==
    IF \E i \in 1..Len(eqSignal) : eqSignal[i].repetition.kind = "NaN" THEN FALSE
    ELSE IF \E i \in 1..Len(eqSignal) : eqSignal[i].repetition.kind = "Infinity" THEN TRUE
    ELSE LET whole == SumQ(eqSignal, Len(eqSignal))
                          + (SumF(eqSignal, Len(eqSignal)) \div RepOne)
         IN  \/ whole > minNumOfCycles
             \/ whole = minNumOfCycles /\ SumF(eqSignal, Len(eqSignal)) % RepOne > 0

\* scaleFactor after j subtractions of 0.0001 from 1.0, in units of
\* 1 / ScaleSteps.  In doubles the 10000th difference is 9.4e-14, not 0: it
\* is still > 0 (line 508) and every product with it is cut to 0 here.
ScaleTicks(j) == MathMax(0, ScaleSteps - j)

\* the loop left one subtraction later than line 508 leaves it
ScaleExhaustedLate(j) == j > ScaleSteps + 1

\* line 508: scaleFactor <= 0 holds from the 10001st subtraction on
ScaleExhausted(j) == j > ScaleSteps

\* range * scaleFactor, cut to the unit
TimesScale(R, j) == (R * ScaleTicks(j)) \div ScaleSteps

\* lines 516-518: candidate >= mid, with candidate = range * scaleFactor and
\* mid = (eqSignalMaxRed[idx - 1][0] + eqSignalMaxRed[idx][0]) / 2
CandidateReachesMid(R, j, redBelow, redAt) ==
    2 * R * ScaleTicks(j) >= (redBelow + redAt) * ScaleSteps

\* lines 513-521: the ranges after the first and the middle blocks are scaled
ScaledRange(eqSignal, eqSignalMaxRed, j, idx) ==
    IF idx = 1 THEN TimesScale(eqSignal[1].range, j)
    ELSE IF idx < Len(eqSignal)
              /\ CandidateReachesMid(eqSignal[idx].range, j,
                     eqSignalMaxRed[idx - 1].range, eqSignalMaxRed[idx].range)
    THEN TimesScale(eqSignal[idx].range, j)
    ELSE eqSignal[idx].range

MaxColumn(columns) == [i \in 1..Len(columns) |-> columns[i].maxOfCycle]

MinColumn(columns) == [i \in 1..Len(columns) |-> columns[i].minOfCycle]

\* lines 523-533: the last block forced to globalMax - globalMin; the row's
\* mean becomes globalMax and its block mean the middle of the span
ForcedLast(row, globalMax, globalMin) ==
    [row EXCEPT !.range = (globalMax - globalMin) * FxOne,
                !.mean = 2 * FxOne * globalMax,
                !.blockMean = 2 * FxOne * globalMax - FxOne * (globalMax - globalMin)]

\* lines 536-542: repetition and % damage from the row's range
Recomputed(row, totalDamage, slope) ==
    [row EXCEPT !.repetition = RepetitionOf(row.blockDamage, row.range, slope),
                !.percentDamage = Quot(row.blockDamage * 100, totalDamage)]

\* lines 513-542: one pass of the loop body on a non-empty eqSignal
ScalePass(eqSignal, eqSignalMaxRed, columns, totalDamage, slope, j) ==
    [idx \in 1..Len(eqSignal) |->
        Recomputed(
            IF idx = Len(eqSignal)
            THEN ForcedLast([eqSignal[idx] EXCEPT
                                !.range = ScaledRange(eqSignal, eqSignalMaxRed, j, idx)],
                            findMax(MaxColumn(columns)), findMin(MinColumn(columns)))
            ELSE [eqSignal[idx] EXCEPT
                     !.range = ScaledRange(eqSignal, eqSignalMaxRed, j, idx)],
            totalDamage, slope)]

\* lines 579-585 on one row; the means are in units of 1 / (2 FxOne), in
\* which range / 2 is the number row.range
ShiftedUp(row, minOfTheSignal) ==
    IF row.blockMean - row.range < minOfTheSignal
    THEN [row EXCEPT !.blockMean = row.range + minOfTheSignal]
    ELSE row

\* as ShiftedDown, with the test of the upper bound left out
NeverShiftedDown(row, maxOfTheSignal) == row

\* lines 583-585
ShiftedDown(row, maxOfTheSignal) ==
    IF row.blockMean + row.range > maxOfTheSignal
    THEN [row EXCEPT !.blockMean = maxOfTheSignal - row.range]
    ELSE row

adjustBlockMeansToGlobalMinMax(eqSignal) ==
    IF Len(eqSignal) = 0 THEN eqSignal
    ELSE LET last == eqSignal[Len(eqSignal)]
             minOfTheSignal == last.mean - 2 * last.range
             maxOfTheSignal == last.mean
         IN  [i \in 1..Len(eqSignal) |->
                 ShiftedDown(ShiftedUp(eqSignal[i], minOfTheSignal), maxOfTheSignal)]

\* the rows in the order the scaling left them, lowest block first
keepOrder(a) == a

\* Array.prototype.reverse
reverse(a) == [i \in 1..Len(a) |-> a[Len(a) + 1 - i]]

\* calculateEqSignal's count of the input cycles started at 1 instead of 0
RECURSIVE TotalNumCyclesFromOne(_, _)
TotalNumCyclesFromOne(columns, n) ==
    IF n = 0 THEN 1 ELSE columns[n].cycleReptes + TotalNumCyclesFromOne(columns, n - 1)

\* lines 625-628
RECURSIVE TotalNumCyclesOriginal(_, _)
TotalNumCyclesOriginal(columns, n) ==
    IF n = 0 THEN 0 ELSE columns[n].cycleReptes + TotalNumCyclesOriginal(columns, n - 1)

-----------------------------------------------------------------------------
(* The rainflow engine as calls: Init draws the arguments, one action per  *)
(* exported function applies it.                                           *)

Loads == 0..MaxLoad

\* even-length [a, b, a, b, ...] arrays of at most MaxCycles pairs
PairArrays(A, B) ==
    UNION {{[i \in 1..(2 * n) |-> IF i % 2 = 1 THEN f[(i + 1) \div 2][1]
                                   ELSE f[i \div 2][2]] : f \in [1..n -> A \X B]}
           : n \in 0..MaxCycles}

\* gate values, percent of the largest range
Gates == {0, 50, 100}

Slopes == {1, 2}

RfCalls ==
    [op : {"count_range_cycles"}, cycles : PairArrays(Loads, Loads), repets : 1..MaxRepets]
    \cup
    [op : {"cumulative_rainflow_data"}, data : PairArrays(Loads, 1..MaxRepets),
     slope : Slopes, gate : Gates]
    \cup
    [op : {"concatenateReversals"}, rev1 : SeqsOf(Loads, 0, MaxRevLen),
     rev2 : SeqsOf(Loads, 0, MaxRevLen)]
    \cup
    [op : {"rainflow_counting"}, value : SeqsOf(Loads, 0, MaxSignalLen), k : 1..MaxBins]

\* the rainflow engine at rest
RfIdle ==
    /\ rfCall = [op |-> "none"]
    /\ rfRet = NoRet
    /\ rfRetOpen = NoRet
    /\ rfPc = "idle"
    /\ rfI = 0
    /\ rfStack = <<>>
    /\ rfCycles = <<>>

\* no Channel constructed
ChanIdle ==
    /\ chanValue = <<>>
    /\ chanRepetitions = 0
    /\ chanRf = <<>>
    /\ chanCall = [op |-> "none"]
    /\ chanMin = 0
    /\ chanMax = 0
    /\ chanScale = 0

\* the page not mounted
UiIdle ==
    /\ ctxFiles = <<>>
    /\ ctxChannels = <<>>
    /\ selectedChannels = <<>>

\* the codec at rest: no RPC object constructed
CodecIdle ==
    /\ rpcPc = "idle"
    /\ rpc = <<>>
    /\ rpcRet = NoRet
    /\ written = <<>>
    /\ newRpc = <<>>
    /\ newRpcRet = NoRet

\* the equivalent-signal builder at rest
EqIdle ==
    /\ eqPc = "idle"
    /\ eqCall = <<>>
    /\ sColumns = <<>>
    /\ sTotalDamage = 0
    /\ eqSig = <<>>
    /\ eqSigMaxRed = <<>>
    /\ scaleIter = 0
    /\ eqRet = NoRet

RfInit ==
    /\ rfCall \in RfCalls
    /\ rfRet = NoRet
    /\ rfRetOpen = NoRet
    /\ rfPc = "idle"
    /\ rfI = 0
    /\ rfStack = <<>>
    /\ rfCycles = <<>>
    /\ EqIdle
    /\ CodecIdle
    /\ ChanIdle
    /\ UiIdle

CountRangeCycles ==
    /\ rfCall.op = "count_range_cycles"
    /\ rfRet.kind = "none"
    /\ rfRet' = Returned(count_range_cycles(rfCall.cycles, rfCall.repets))
    /\ UNCHANGED <<rfCall, rfRetOpen, rfPc, rfI, rfStack, rfCycles>>
    /\ UNCHANGED eqVars
    /\ UNCHANGED codecVars
    /\ UNCHANGED chanVars
    /\ UNCHANGED uiVars

CumulativeRainflowData ==
    /\ rfCall.op = "cumulative_rainflow_data"
    /\ rfRet.kind = "none"
    /\ rfRet' = Returned(cumulative_rainflow_data(rfCall.data, rfCall.slope, rfCall.gate))
    /\ UNCHANGED <<rfCall, rfRetOpen, rfPc, rfI, rfStack, rfCycles>>
    /\ UNCHANGED eqVars
    /\ UNCHANGED codecVars
    /\ UNCHANGED chanVars
    /\ UNCHANGED uiVars

ConcatenateReversals ==
    /\ rfCall.op = "concatenateReversals"
    /\ rfRet.kind = "none"
    /\ rfRet' = concatenateReversals(rfCall.rev1, rfCall.rev2)
    /\ UNCHANGED <<rfCall, rfRetOpen, rfPc, rfI, rfStack, rfCycles>>
    /\ UNCHANGED eqVars
    /\ UNCHANGED codecVars
    /\ UNCHANGED chanVars
    /\ UNCHANGED uiVars

\* rainflow_counting(value, true, k)
RainflowCountingClosed ==
    /\ rfCall.op = "rainflow_counting"
    /\ rfRet.kind = "none"
    /\ rfRet' = rainflow_counting(rfCall.value, TRUE, rfCall.k)
    /\ UNCHANGED <<rfCall, rfRetOpen, rfPc, rfI, rfStack, rfCycles>>
    /\ UNCHANGED eqVars
    /\ UNCHANGED codecVars
    /\ UNCHANGED chanVars
    /\ UNCHANGED uiVars

\* rainflow_counting(value, false, k)
RainflowCountingOpen ==
    /\ rfCall.op = "rainflow_counting"
    /\ rfRetOpen.kind = "none"
    /\ rfRetOpen' = rainflow_counting(rfCall.value, FALSE, rfCall.k)
    /\ UNCHANGED <<rfCall, rfRet, rfPc, rfI, rfStack, rfCycles>>
    /\ UNCHANGED eqVars
    /\ UNCHANGED codecVars
    /\ UNCHANGED chanVars
    /\ UNCHANGED uiVars

RfNext ==
    \/ CountRangeCycles
    \/ CumulativeRainflowData
    \/ ConcatenateReversals
    \/ RainflowCountingClosed
    \/ RainflowCountingOpen

SpecRainflow == RfInit /\ [][RfNext]_vars

-----------------------------------------------------------------------------
(* findRainflowCyclesStack as a process: one action per pass of its loops. *)

\* longest reversal sequence handed to findRainflowCyclesStack: six reversals
\* can lose a cycle and leave a residue of four
MaxReversals == 6

StackCalls == [op : {"findRainflowCyclesStack"}, reversals : SeqsOf(Loads, 0, MaxReversals)]

StackInit ==
    /\ rfCall \in StackCalls
    /\ rfRet = NoRet
    /\ rfRetOpen = NoRet
    /\ rfPc = "for"
    /\ rfI = 0
    /\ rfStack = <<>>
    /\ rfCycles = <<>>
    /\ EqIdle
    /\ CodecIdle
    /\ ChanIdle
    /\ UiIdle

\* lines 205-206: the for loop pushes the next reversal
StackPush ==
    /\ rfPc = "for"
    /\ rfI < Len(rfCall.reversals)
    /\ rfStack' = Append(rfStack, rfCall.reversals[rfI + 1])
    /\ rfI' = rfI + 1
    /\ rfPc' = "while"
    /\ UNCHANGED <<rfCall, rfRet, rfRetOpen, rfCycles>>
    /\ UNCHANGED eqVars
    /\ UNCHANGED codecVars
    /\ UNCHANGED chanVars
    /\ UNCHANGED uiVars

\* lines 209-231: one pass of the while loop
StackWhile ==
    /\ rfPc = "while"
    /\ IF FourPointRule(rfStack)
       THEN /\ rfCycles' = rfCycles \o <<rfStack[Len(rfStack) - 2], rfStack[Len(rfStack) - 1]>>
            /\ rfStack' = StackSplice(rfStack)
            /\ UNCHANGED rfPc
       ELSE /\ rfPc' = "for"
            /\ UNCHANGED <<rfStack, rfCycles>>
    /\ UNCHANGED <<rfCall, rfRet, rfRetOpen, rfI>>
    /\ UNCHANGED eqVars
    /\ UNCHANGED codecVars
    /\ UNCHANGED chanVars
    /\ UNCHANGED uiVars

\* lines 233-239: the leftover stack is the residue
StackReturn ==
    /\ rfPc = "for"
    /\ rfI >= Len(rfCall.reversals)
    /\ rfRet' = Returned(<<rfCycles, rfStack>>)
    /\ rfPc' = "done"
    /\ UNCHANGED <<rfCall, rfRetOpen, rfI, rfStack, rfCycles>>
    /\ UNCHANGED eqVars
    /\ UNCHANGED codecVars
    /\ UNCHANGED chanVars
    /\ UNCHANGED uiVars

StackNext ==
    \/ StackPush
    \/ StackWhile
    \/ StackReturn

\* a call that has started runs to its end: the function is synchronous code
SpecStack == StackInit /\ [][StackNext]_vars /\ WF_vars(StackNext)

-----------------------------------------------------------------------------
(* eqDmgSignal as a process: one action builds the blocks (lines 674-642), *)
(* one action is one pass of the scaling loop (lines 497-543), one action  *)
(* adjusts the means and returns (lines 650-652).                          *)

\* loads of the cycles of a call without a floor are drawn from 0..MaxEqLoad
MaxEqLoad == 4
\* loads of the cycles of a call with a floor are drawn from 0..MaxFloorLoad
MaxFloorLoad == 2
\* largest number of [peak, valley] pairs of the signal
MaxEqCycles == 3
\* blocksNumber is drawn from 1..MaxBlocks
MaxBlocks == 2
\* the floor minNumOfCycles of the calls that have one
MaxMinCycles == 2

\* non-empty [peak, valley, ...] arrays of at most MaxEqCycles of the pairs
EqCycleArrays(pairs) ==
    UNION {{[i \in 1..(2 * n) |-> IF i % 2 = 1 THEN f[(i + 1) \div 2][1]
                                   ELSE f[i \div 2][2]]
              : f \in [1..n -> pairs]}
           : n \in 1..MaxEqCycles}

\* cycles of a range > 0
OpenPairs(maxLoad) == {pv \in (0..maxLoad) \X (0..maxLoad) : pv[1] # pv[2]}

\* all cycles, those of range 0 included
AllPairs(maxLoad) == (0..maxLoad) \X (0..maxLoad)

\* [peak, 0, ...] arrays of MaxEqCycles + 1 cycles, which blocksNumber =
\* MaxBlocks + 1 divides into a first, a middle and a last block
MiddleBlockArrays ==
    {[i \in 1..(2 * (MaxEqCycles + 1)) |-> IF i % 2 = 1 THEN f[(i + 1) \div 2] ELSE 0]
        : f \in [1..(MaxEqCycles + 1) -> 1..MaxEqLoad]}

\* Calls without a floor (minNumOfCycles = 0) on cycles of a range > 0, and
\* calls with the floor MaxMinCycles on a smaller set of loads, cycles of
\* range 0 included: a floor that is never reached, or a NaN repetition,
\* costs 10000 passes of the scaling loop.  An empty rfList, for which the
\* builder reads past the end of empty arrays, is left out.
\* Calls with MaxBlocks + 1 blocks on MaxEqCycles + 1 cycles and a floor of as
\* many repetitions make the scaling loop work on a middle block.
EqCalls ==
    [rfList : {<<arr>> : arr \in EqCycleArrays(OpenPairs(MaxEqLoad))},
     repetitions : {<<1>>},
     blocksNumber : 1..MaxBlocks,
     minNumOfCycles : {0},
     slope : Slopes]
    \cup
    [rfList : {<<arr>> : arr \in EqCycleArrays(AllPairs(MaxFloorLoad))},
     repetitions : {<<1>>},
     blocksNumber : 1..MaxBlocks,
     minNumOfCycles : {MaxMinCycles},
     slope : {1}]
    \cup
    [rfList : {<<arr>> : arr \in MiddleBlockArrays},
     repetitions : {<<1>>},
     blocksNumber : {MaxBlocks + 1},
     minNumOfCycles : {MaxEqCycles + 1},
     slope : {1}]

EqInit ==
    /\ RfIdle
    /\ eqPc = "call"
    /\ eqCall \in EqCalls
    /\ sColumns = <<>>
    /\ sTotalDamage = 0
    /\ eqSig = <<>>
    /\ eqSigMaxRed = <<>>
    /\ scaleIter = 0
    /\ eqRet = NoRet
    /\ CodecIdle
    /\ ChanIdle
    /\ UiIdle

\* the arguments that stay in use after parseAllRainflowData
Parsed(call) == [call EXCEPT !.rfList = <<>>, !.repetitions = <<>>]

\* lines 634-642 of calculateEqSignal on the parsed sColumns
BuildBlocks(parsed, blocksNumber, slope) ==
    LET sorted == sortRainflowColumns(parsed)
    IN  buildEquivalentSignalBlocks(sorted[1],
            insertBlockBoundaries(sorted[1], blocksNumber), sorted[2], slope)

\* eqDmgSignal up to the call of scaleEquivalentSignalToMinimumCycles
EqBuildBlocks ==
    /\ eqPc = "call"
    /\ LET parsed == parseAllRainflowData(eqCall.rfList, eqCall.repetitions, eqCall.slope)
       IN  IF parsed.kind = "throw"
           THEN /\ eqPc' = "thrown"
                /\ eqRet' = parsed
                /\ UNCHANGED <<eqCall, sColumns, sTotalDamage, eqSig, eqSigMaxRed>>
           ELSE IF TotalNumCyclesOriginal(parsed.value, Len(parsed.value))
                       < eqCall.minNumOfCycles
           THEN /\ eqPc' = "thrown"
                /\ eqRet' = Thrown("Original signal has less cycles than requested minimum.")
                /\ UNCHANGED <<eqCall, sColumns, sTotalDamage, eqSig, eqSigMaxRed>>
           ELSE /\ eqPc' = "scale"
                /\ eqCall' = Parsed(eqCall)
                /\ sColumns' = sortRainflowColumns(parsed.value)[1]
                /\ sTotalDamage' = sortRainflowColumns(parsed.value)[2]
                /\ eqSig' = BuildBlocks(parsed.value, eqCall.blocksNumber, eqCall.slope)
                /\ eqSigMaxRed' = BuildBlocks(parsed.value, eqCall.blocksNumber, eqCall.slope)
                /\ eqRet' = NoRet
    /\ scaleIter' = 0
    /\ UNCHANGED rfVars
    /\ UNCHANGED codecVars
    /\ UNCHANGED chanVars
    /\ UNCHANGED uiVars

\* one pass of while (true), lines 497-543
EqScalePass ==
    /\ eqPc = "scale"
    /\ IF CycleNoExceeds(eqSig, eqCall.minNumOfCycles)
       THEN /\ eqPc' = "adjust"
            /\ UNCHANGED <<eqSig, eqSigMaxRed, scaleIter, eqRet>>
       ELSE /\ scaleIter' = scaleIter + 1
            /\ eqSigMaxRed' = IF scaleIter = 0 THEN eqSig ELSE eqSigMaxRed
            /\ IF ScaleExhausted(scaleIter + 1)
               THEN /\ eqPc' = "adjust"
                    /\ UNCHANGED <<eqSig, eqRet>>
               ELSE IF Len(eqSig) = 0
               THEN /\ eqPc' = "thrown"
                    /\ eqRet' = Thrown("TypeError: eqSig[0] is undefined")
                    /\ UNCHANGED eqSig
               ELSE /\ eqPc' = "scale"
                    /\ eqSig' = ScalePass(eqSig, eqSigMaxRed', sColumns,
                                             sTotalDamage, eqCall.slope, scaleIter + 1)
                    /\ UNCHANGED eqRet
    /\ UNCHANGED <<eqCall, sColumns, sTotalDamage>>
    /\ UNCHANGED rfVars
    /\ UNCHANGED codecVars
    /\ UNCHANGED chanVars
    /\ UNCHANGED uiVars

\* lines 650-652: adjustBlockMeansToGlobalMinMax, then return eqSig.reverse();
\* eqSig keeps the rows as the scaling left them
EqAdjustAndReturn ==
    /\ eqPc = "adjust"
    /\ eqPc' = "returned"
    /\ eqRet' = Returned(reverse(adjustBlockMeansToGlobalMinMax(eqSig)))
    /\ UNCHANGED <<eqCall, sColumns, sTotalDamage, eqSig, eqSigMaxRed, scaleIter>>
    /\ UNCHANGED rfVars
    /\ UNCHANGED codecVars
    /\ UNCHANGED chanVars
    /\ UNCHANGED uiVars

EqNext ==
    \/ EqBuildBlocks
    \/ EqScalePass
    \/ EqAdjustAndReturn

SpecEq == EqInit /\ [][EqNext]_vars

-----------------------------------------------------------------------------
(* RPC-III codec, src/unnamed/part_003 (rpc.ts)                            *)
(*                                                                         *)
(* The byte buffer of a file is the record                                 *)
(*   [blocks, headerBytes, data, width]:                                   *)
(* blocks are the 128-byte header blocks at the start of the buffer, each  *)
(* a [name, value] pair of strings; headerBytes is the offset at which the *)
(* data section begins (the blocks followed by zero bytes); data are the   *)
(* stored elements, each width bytes wide (2: little-endian int16, 4:      *)
(* float32).                                                               *)
(*                                                                         *)
(* Strings that the code converts are kept with their structure: a text    *)
(* that begins with no digit, the decimal numeral of an integer, or a      *)
(* numeral in exponential notation; parseInt, parseFloat, String,          *)
(* toString and toExponential are computed on that structure.  Numbers     *)
(* are exact: a header integer, a non-negative decimal m * 10^e, or a      *)
(* sample k * by (an integer times a decimal), NaN and the infinities      *)
(* apart.  Exact arithmetic gives the float64 result wherever the exact    *)
(* value is no rounding tie; the inputs below produce no tie.              *)
(***************************************************************************)

\* size of one header block (name 32 bytes, value 96 bytes), line 88
HeaderBlockLen == 128
\* NUM_HEADER_BLOCKS counts units of 512 bytes, lines 283, 307 and 401
HeaderUnitLen == 512
\* write(): const PTS_PER_FRAME = 1024, line 61
PTS_PER_FRAME == 1024

NaN == [kind |-> "NaN"]

\* an integer-valued number
Num(n) == [kind |-> "number", n |-> n]

\* the non-negative decimal m * 10^e, with no trailing zero in m
RECURSIVE StripZeros(_, _)
StripZeros(m, e) ==
    IF m = 0 THEN [kind |-> "decimal", m |-> 0, e |-> 0]
    ELSE IF m % 10 = 0 THEN StripZeros(m \div 10, e + 1)
    ELSE [kind |-> "decimal", m |-> m, e |-> e]

Dec(m, e) == StripZeros(m, e)

\* strings
Text(s) == [kind |-> "text", s |-> s]
IntStr(n) == [kind |-> "int numeral", n |-> n]
ExpStr(d) == [kind |-> "exp numeral", m |-> d.m, e |-> d.e]

\* String(x): a string is itself; String(undefined) is "undefined"
JsString(x) ==
    CASE x.kind = "number" -> IntStr(x.n)
      [] x.kind = "NaN" -> Text("NaN")
      [] x.kind = "decimal" -> ExpStr(x)
      [] OTHER -> x

Undefined == Text("undefined")

\* Number.prototype.toString of an integer
toString(n) == IntStr(n)

\* first digit of the decimal numeral of m > 0
RECURSIVE LeadingDigit(_)
LeadingDigit(m) == IF m < 10 THEN m ELSE LeadingDigit(m \div 10)

\* parseInt(str, 10): the longest prefix of digits; "d.ddddde-x" gives d;
\* a text that begins with no digit gives NaN
parseInt(str) ==
    CASE str.kind = "int numeral" -> Num(str.n)
      [] str.kind = "exp numeral" -> Num(LeadingDigit(str.m))
      [] OTHER -> NaN

\* parseFloat(str) of a numeral that carries no sign
parseFloat(str) ==
    CASE str.kind = "int numeral" -> Dec(str.n, 0)
      [] str.kind = "exp numeral" -> Dec(str.m, str.e)
      [] str = [kind |-> "text", s |-> "Infinity"] -> [kind |-> "Infinity"]
      [] OTHER -> NaN

\* Number(x) of a header value already converted by lines 211-224
JsNumber(x) == IF x.kind \in {"number", "NaN"} THEN x ELSE parseInt(x)

\* headers: a map from the names that are set to their values
NoHeaders == [x \in {} |-> NaN]

SetHeader(headers, name, val) ==
    [x \in (DOMAIN headers) \cup {name} |-> IF x = name THEN val ELSE headers[x]]

\* this.Headers[name], undefined when absent
HeaderOrUndefined(headers, name) ==
    IF name \in DOMAIN headers THEN headers[name] ELSE Undefined

\* String.prototype.trim on a block name
Trim(name) == IF name \in {"", " "} THEN "" ELSE name

\* parseHeaderBlock (lines 85-108): the block at a byte offset.  subarray
\* never throws: past the blocks the bytes are zero or absent and both
\* strings come out empty, so the catch branch and the null checks of
\* lines 116 and 149 are dead.
parseHeaderBlock(buffer, offset) ==
    IF offset \div HeaderBlockLen + 1 <= Len(buffer.blocks)
    THEN buffer.blocks[offset \div HeaderBlockLen + 1]
    ELSE [name |-> "", value |-> Text("")]

\* new RPC(bytes, fileName, debug, extra_headers), lines 30-50
NewRPC(bytes, extra_headers) ==
    [bytes |-> bytes,
     extra_headers |-> extra_headers,
     Headers |-> NoHeaders,
     Errors |-> <<>>,
     Channels |-> <<>>,
     dt |-> Dec(0, 0)]

\* the defaults of lines 43-47
DefaultExtraHeaders ==
    SetHeader(SetHeader(NoHeaders, "INT_FULL_SCALE", Num(2 ^ 15)),
              "DATA_TYPE", Text("SHORT_INTEGER"))

requiredFirstHeaders == {"FORMAT", "NUM_HEADER_BLOCKS", "NUM_PARAMS"}

\* a step of a method: whether it goes on (ok) and the object it leaves
Goes(obj) == [ok |-> TRUE, obj |-> obj]

Fails(obj, msg) == [ok |-> FALSE, obj |-> [obj EXCEPT !.Errors = Append(@, msg)]]

\* lines 114-136: the first three blocks, from block i (0-based) on
RECURSIVE ReadFirstHeaders(_, _)
ReadFirstHeaders(obj, i) ==
    IF i = 3 THEN Goes(obj)
    ELSE LET block == parseHeaderBlock(obj.bytes, i * HeaderBlockLen)
         IN  IF block.name \notin requiredFirstHeaders
             THEN Fails(obj, "Header of the file does not contain required fields")
             ELSE ReadFirstHeaders(
                     [obj EXCEPT !.Headers =
                         SetHeader(@, block.name,
                                   IF block.name \in {"NUM_HEADER_BLOCKS", "NUM_PARAMS"}
                                   THEN parseInt(block.value)
                                   ELSE block.value)],
                     i + 1)

\* lines 147-162: blocks headerIndex .. numParams - 1; a blank name sets nothing
RECURSIVE ReadMoreHeaders(_, _, _, _)
ReadMoreHeaders(headers, buffer, headerIndex, numParams) ==
    IF headerIndex >= numParams THEN headers
    ELSE LET block == parseHeaderBlock(buffer, headerIndex * HeaderBlockLen)
         IN  ReadMoreHeaders(
                 IF Trim(block.name) # ""
                 THEN SetHeader(headers, block.name, JsString(block.value))
                 ELSE headers,
                 buffer, headerIndex + 1, numParams)

\* lines 166-177: a default is taken only for a name the file did not set
MergeExtraHeaders(headers, extra_headers) ==
    [x \in (DOMAIN headers) \cup (DOMAIN extra_headers) |->
        IF x \in DOMAIN headers THEN headers[x] ELSE extra_headers[x]]

\* Number(this.Headers.NUM_PARAMS), line 139
NumParamsOf(headers) ==
    IF "NUM_PARAMS" \in DOMAIN headers THEN JsNumber(headers["NUM_PARAMS"]) ELSE NaN

\* x > n for a number x; false for NaN
GreaterThan(x, n) == x.kind = "number" /\ x.n > n

\* lines 147-177: the remaining blocks, then the defaults
ReadAllHeaders(obj) ==
    [obj EXCEPT !.Headers =
        MergeExtraHeaders(ReadMoreHeaders(@, obj.bytes, 3, NumParamsOf(@).n),
                          obj.extra_headers)]

mandatoryCommon ==
    <<"NUM_HEADER_BLOCKS", "CHANNELS", "DELTA_T", "PTS_PER_FRAME", "PTS_PER_GROUP",
      "FRAMES", "DATA_TYPE">>

\* lines 191-195: one message per absent field, in the order of the list
MissingMandatory(headers) ==
    LET absent == SelectSeq(mandatoryCommon, LAMBDA field : field \notin DOMAIN headers)
    IN  [i \in 1..Len(absent) |-> "Missing mandatory header: " \o absent[i]]

\* String(this.Headers.DATA_TYPE), line 201
dataTypeInHeader(headers) == JsString(HeaderOrUndefined(headers, "DATA_TYPE"))

\* lines 181-205
CheckMandatory(obj) ==
    LET reported == [obj EXCEPT !.Errors = @ \o MissingMandatory(obj.Headers)]
    IN  IF Len(reported.Errors) > 0 THEN [ok |-> FALSE, obj |-> reported]
        ELSE IF /\ dataTypeInHeader(obj.Headers) = Text("SHORT_INTEGER")
                /\ "INT_FULL_SCALE" \notin DOMAIN obj.Headers
        THEN Fails(obj, "Missing mandatory header: INT_FULL_SCALE for SHORT_INTEGER")
        ELSE Goes(obj)

\* parseInt(String(this.Headers[name]), 10)
IntHeader(headers, name) == parseInt(JsString(headers[name]))

\* lines 211-225: parseInt and parseFloat never throw, so the catch is dead;
\* a value that is no numeral becomes NaN and is kept
ConvertNumeric(obj) ==
    LET h0 == obj.Headers
        h1 == [x \in DOMAIN h0 |->
                 CASE x \in {"NUM_HEADER_BLOCKS", "CHANNELS", "PTS_PER_FRAME",
                             "PTS_PER_GROUP", "FRAMES"} -> IntHeader(h0, x)
                   [] x = "DELTA_T" -> parseFloat(JsString(h0[x]))
                   [] x = "INT_FULL_SCALE" /\ dataTypeInHeader(h0) = Text("SHORT_INTEGER")
                        -> IntHeader(h0, x)
                   [] OTHER -> h0[x]]
    IN  [obj EXCEPT !.Headers = h1, !.dt = h1["DELTA_T"]]

\* a sample: the number k * by, by a finite decimal
Sample(k, by) == [kind |-> "finite", k |-> k, by |-> by]

PlusInfinity == [kind |-> "Infinity"]

MinusInfinity == [kind |-> "-Infinity"]

\* data[i] * scale_factor
Times(k, scale) ==
    CASE scale.kind = "NaN" -> NaN
      [] scale.kind = "Infinity" ->
            IF k = 0 THEN NaN ELSE IF k > 0 THEN PlusInfinity ELSE MinusInfinity
      [] OTHER -> Sample(k, scale)

\* new Channel(...), part_002 lines 13-41: value empty, min 1e30, max -1e30
NewChannel(number, name, units, scale, dt) ==
    [Number |-> number, Name |-> name, Units |-> units, scale |-> scale, dt |-> dt,
     value |-> <<>>,
     min |-> Sample(1, Dec(1, 30)),
     max |-> Sample(-1, Dec(1, 30))]

\* the number of passes of  for (idx = 0; idx < n; idx++)
LoopCount(n) == IF n.kind = "number" /\ n.n > 0 THEN n.n ELSE 0

\* lines 232-252 run twice over
CreateChannelsTwice(obj) ==
    LET h == obj.Headers
    IN  [obj EXCEPT !.Channels =
            [idx \in 1..(2 * LoopCount(h["CHANNELS"])) |->
                NewChannel(idx, Undefined, Undefined, Dec(1, 0), obj.dt)]]

\* lines 232-252: one Channel per CHANNELS, pushed before any data is read
CreateChannels(obj) ==
    LET h == obj.Headers
        short == dataTypeInHeader(h) = Text("SHORT_INTEGER")
    IN  [obj EXCEPT !.Channels = @ \o
            [idx \in 1..LoopCount(h["CHANNELS"]) |->
                NewChannel(idx,
                    JsString(HeaderOrUndefined(h, "DESC.CHAN_" \o ToString(idx))),
                    JsString(HeaderOrUndefined(h, "UNITS.CHAN_" \o ToString(idx))),
                    IF short
                    THEN parseFloat(JsString(HeaderOrUndefined(h, "SCALE.CHAN_" \o ToString(idx))))
                    ELSE Dec(1, 0),
                    obj.dt)]]

\* lines 179-255
HeaderChecked(obj) ==
    LET checked == CheckMandatory(obj)
    IN  IF ~checked.ok THEN checked
        ELSE Goes(CreateChannels(ConvertNumeric(checked.obj)))

\* readHeader(), lines 83-256
readHeader(obj) ==
    LET first == ReadFirstHeaders(obj, 0)
    IN  IF ~first.ok THEN first
        ELSE IF ~GreaterThan(NumParamsOf(first.obj.Headers), 3)
        THEN Fails(first.obj, "No data in file (NUM_PARAMS <= 3)")
        ELSE HeaderChecked(ReadAllHeaders(first.obj))

\* a / b truncated toward zero
TruncDiv(a, b) ==
    IF (a < 0) = (b < 0) THEN Abs(a) \div Abs(b) ELSE -(Abs(a) \div Abs(b))

\* the least integer >= a / b, for b > 0
CeilDiv(a, b) == -((-a) \div b)

\* parseInt(String(point_per_group / point_per_frame), 10), line 265: NaN for
\* a NaN operand and for a zero divisor (the quotient is NaN or an infinity,
\* whose String parseInt does not read)
FramesPerGroup(point_per_group, point_per_frame) ==
    IF point_per_group.kind = "NaN" \/ point_per_frame.kind = "NaN" THEN NaN
    ELSE IF point_per_frame.n = 0 THEN NaN
    ELSE Num(TruncDiv(point_per_group.n, point_per_frame.n))

\* parseInt(String(Math.ceil(frames / frames_per_group))), line 266
NumberOfGroups(frames, frames_per_group) ==
    IF frames.kind = "NaN" \/ frames_per_group.kind = "NaN" THEN NaN
    ELSE IF frames_per_group.n = 0 THEN NaN
    ELSE IF frames_per_group.n > 0 THEN Num(CeilDiv(frames.n, frames_per_group.n))
    ELSE Num(CeilDiv(-frames.n, -frames_per_group.n))

\* lines 267-280: data_order[i][j] is the frame number of slot j of group i
DataOrder(number_of_groups, frames_per_group) ==
    [i \in 1..LoopCount(number_of_groups) |->
        [j \in 1..LoopCount(frames_per_group) |-> (i - 1) * LoopCount(frames_per_group) + j]]

\* lines 272 and 275: set when a slot of a group lies past the last frame
RemoveLastFrame(data_order, frames) ==
    \E i \in 1..Len(data_order) : \E j \in 1..Len(data_order[i]) :
        frames.kind = "number" /\ data_order[i][j] > frames.n

\* a product of numbers, NaN as soon as one factor is NaN
RECURSIVE Product(_)
Product(factors) ==
    IF factors = <<>> THEN Num(1)
    ELSE LET rest == Product(Tail(factors))
         IN  IF Head(factors).kind = "NaN" \/ rest.kind = "NaN" THEN NaN
             ELSE Num(Head(factors).n * rest.n)

\* this.bytes.length
BytesLength(buffer) == buffer.headerBytes + buffer.width * Len(buffer.data)

\* this.bytes.length - Number(this.Headers.NUM_HEADER_BLOCKS) * 512, line 283
ActualDataSize(obj) ==
    LET blocks == JsNumber(obj.Headers["NUM_HEADER_BLOCKS"])
    IN  IF blocks.kind = "NaN" THEN NaN
        ELSE Num(BytesLength(obj.bytes) - blocks.n * HeaderUnitLen)

\* (this.Headers.DATA_TYPE as DataType) || 'SHORT_INTEGER', line 284
DataTypeOf(headers) ==
    IF headers["DATA_TYPE"] = Text("") THEN Text("SHORT_INTEGER") ELSE headers["DATA_TYPE"]

\* DATA_TYPES, lines 18-27: the unpack size of the two known types
DATA_TYPES ==
    [x \in {"FLOATING_POINT", "SHORT_INTEGER"} |->
        [unpackSize |-> IF x = "FLOATING_POINT" THEN 4 ELSE 2]]

\* whether DATA_TYPES[dataType] is an entry; reading .unpackSize of a missing
\* entry (undefined) raises a TypeError, line 285
KnownDataType(dataType) == dataType.kind = "text" /\ dataType.s \in DOMAIN DATA_TYPES

\* line 287
ExpectedDataSize(obj, unpackSize) ==
    LET h == obj.Headers
        point_per_frame == JsNumber(h["PTS_PER_FRAME"])
        frames_per_group == FramesPerGroup(JsNumber(h["PTS_PER_GROUP"]), point_per_frame)
        number_of_groups == NumberOfGroups(JsNumber(h["FRAMES"]), frames_per_group)
    IN  Product(<<point_per_frame, Num(unpackSize), frames_per_group, number_of_groups,
                  JsNumber(h["CHANNELS"])>>)

\* the text of a number inside a template string
NumberText(x) == IF x.kind = "NaN" THEN "NaN" ELSE ToString(x.n)

\* the element that struct.unpack reads at a byte offset of the buffer
StoredElement(buffer, offset, unpackSize) ==
    buffer.data[(offset - buffer.headerBytes) \div unpackSize + 1]

\* the frames of one group read frame by frame, each frame for every channel
GroupReadsFrameMajor(frame_group, channels) ==
    [r \in 1..(channels * Len(frame_group)) |-> (r - 1) % channels]

\* the channel numbers (0-based) of the frames of one group in the order lines
\* 311-316 read them: for each channel, each frame of the group
GroupReads(frame_group, channels) ==
    [r \in 1..(channels * Len(frame_group)) |-> (r - 1) \div Len(frame_group)]

\* the same for  for (let frame_group of data_order), line 310
RECURSIVE ReadOrder(_, _)
ReadOrder(data_order, channels) ==
    IF data_order = <<>> THEN <<>>
    ELSE GroupReads(Head(data_order), channels) \o ReadOrder(Tail(data_order), channels)

\* lines 316-329 as far as they write one channel.  Every frame read moves
\* idx on by point_per_frame * unpackSize; a frame of the channel writes its
\* points at writeIndex, writeIndex + 1, ...; a write at or past the length
\* of the Float64Array is dropped.  frame is [point_per_frame, unpackSize,
\* scale_factor].
RECURSIVE UnpackFrames(_, _, _, _, _, _, _)
UnpackFrames(buffer, reads, channel, frame, idx, writeIndex, value) ==
    IF reads = <<>> THEN value
    ELSE IF Head(reads) # channel
    THEN UnpackFrames(buffer, Tail(reads), channel, frame,
                      idx + frame.point_per_frame * frame.unpackSize, writeIndex, value)
    ELSE UnpackFrames(buffer, Tail(reads), channel, frame,
                      idx + frame.point_per_frame * frame.unpackSize,
                      writeIndex + frame.point_per_frame,
                      [w \in 1..Len(value) |->
                          IF w > writeIndex /\ w <= writeIndex + frame.point_per_frame
                          THEN Times(StoredElement(buffer,
                                        idx + (w - writeIndex - 1) * frame.unpackSize,
                                        frame.unpackSize),
                                     frame.scale_factor)
                          ELSE value[w]])

\* lines 301-331 for one channel (0-based number channel): a zero-filled
\* Float64Array of frames * point_per_frame, then the frames in reading order
Demultiplexed(obj, channel, unpackSize, scale_factor) ==
    LET h == obj.Headers
        frames_per_group == FramesPerGroup(h["PTS_PER_GROUP"], h["PTS_PER_FRAME"])
        data_order == DataOrder(NumberOfGroups(h["FRAMES"], frames_per_group),
                                frames_per_group)
    IN  UnpackFrames(obj.bytes, ReadOrder(data_order, h["CHANNELS"].n), channel,
                     [point_per_frame |-> h["PTS_PER_FRAME"].n,
                      unpackSize |-> unpackSize,
                      scale_factor |-> scale_factor],
                     h["NUM_HEADER_BLOCKS"].n * HeaderUnitLen, 0,
                     [w \in 1..(h["FRAMES"].n * h["PTS_PER_FRAME"].n) |-> Times(0, Dec(1, 0))])

\* utils.findMinMax (utils.ts lines 18-26) on an array of samples.  The
\* samples of one array share their decimal factor, so they compare as their
\* integers do (all are zero when the factor is zero); a comparison with NaN
\* is false, which leaves the initial +Infinity / -Infinity in place.
findMinMaxOfSamples(arr) ==
    LET finite == {i \in 1..Len(arr) : arr[i].kind = "finite"}
        ks == {arr[i].k : i \in finite}
        by == arr[CHOOSE i \in finite : TRUE].by
    IN  IF finite = {} THEN [min |-> PlusInfinity, max |-> MinusInfinity]
        ELSE IF by.m = 0 THEN [min |-> Sample(0, by), max |-> Sample(0, by)]
        ELSE [min |-> Sample(CHOOSE k \in ks : \A other \in ks : k <= other, by),
              max |-> Sample(CHOOSE k \in ks : \A other \in ks : k >= other, by)]

\* Channel.setMinMax, part_002 lines 43-47
setMinMax(chan) ==
    [chan EXCEPT !.min = findMinMaxOfSamples(chan.value).min,
                 !.max = findMinMaxOfSamples(chan.value).max]

\* lines 301-339 for the channel at position c (1-based) of this.Channels
FilledChannel(obj, c, dataType, removeLastFrame) ==
    LET h == obj.Headers
        demux == Demultiplexed(obj, c - 1, DATA_TYPES[dataType].unpackSize,
                               IF dataType = "SHORT_INTEGER" THEN obj.Channels[c].scale
                               ELSE Dec(1, 0))
    IN  setMinMax([obj.Channels[c] EXCEPT !.value =
            IF removeLastFrame
            THEN subarray(demux, 0, h["PTS_PER_FRAME"].n * h["FRAMES"].n)
            ELSE demux])

\* lines 332-337 for a channel behind the first CHANNELS ones: no sample was
\* written to it, and a subarray of its value is its value
UnfilledChannel(obj, c) == setMinMax(obj.Channels[c])

\* what a method did and the object it leaves
Outcome(ret, obj) == [ret |-> ret, obj |-> obj]

\* lines 282-342 once DATA_TYPES[dataType] is known to exist
ReadDataOfType(obj, dataType) ==
    LET h == obj.Headers
        actual_data_size == ActualDataSize(obj)
        expected_data_size == ExpectedDataSize(obj, DATA_TYPES[dataType].unpackSize)
        frames_per_group == FramesPerGroup(JsNumber(h["PTS_PER_GROUP"]),
                                           JsNumber(h["PTS_PER_FRAME"]))
        data_order == DataOrder(NumberOfGroups(JsNumber(h["FRAMES"]), frames_per_group),
                                frames_per_group)
    IN  IF actual_data_size.kind = "NaN" \/ actual_data_size # expected_data_size
        THEN Outcome(Returned(FALSE),
                [obj EXCEPT !.Errors = Append(@,
                    "DATA_TYPE error: size is " \o NumberText(actual_data_size)
                        \o "B - expected " \o NumberText(expected_data_size) \o "B")])
        ELSE Outcome(Returned(TRUE),
                [obj EXCEPT !.Channels =
                    [c \in 1..Len(@) |->
                        IF c <= LoopCount(h["CHANNELS"])
                        THEN FilledChannel(obj, c, dataType,
                                 RemoveLastFrame(data_order, JsNumber(h["FRAMES"])))
                        ELSE UnfilledChannel(obj, c)]])

\* readData(), lines 258-342: a DATA_TYPE that is no key of DATA_TYPES makes
\* line 285 read a property of undefined
readData(obj) ==
    IF ~KnownDataType(DataTypeOf(obj.Headers)) THEN Outcome(Thrown("TypeError"), obj)
    ELSE ReadDataOfType(obj, DataTypeOf(obj.Headers).s)

\* parse(), lines 52-57
parse(obj) ==
    LET header == readHeader(obj)
    IN  IF ~header.ok THEN Outcome(Returned(FALSE), header.obj)
        ELSE readData(header.obj)

\* Math.pow(2, 15) - 1, utils.ts line 72
Int16Max == 2 ^ 15 - 1

\* Math.round of the quotient num / den, den > 0: the nearest integer, a tie
\* going up
MathRound(num, den) ==
    IF 2 * (num % den) >= den THEN num \div den + 1 ELSE num \div den

\* the conversion of an integer to an Int16Array element: modulo 2^16 into
\* -2^15 .. 2^15 - 1
ToInt16(x) == ((x + 2 ^ 15) % (2 ^ 16)) - 2 ^ 15

\* absmaxValue = Math.max(max, Math.abs(max)), utils.ts lines 68-69: the
\* absolute value of the LARGEST sample (not the largest absolute value);
\* +Infinity when findMinMax left max at -Infinity
AbsMaxValue(max) ==
    IF max.kind = "finite" THEN Sample(Abs(max.k), max.by) ELSE PlusInfinity

\* Math.round(value / factor) stored into the Int16Array, utils.ts line 75,
\* for factor = absmaxValue / Int16Max.  With value = k * by and absmaxValue
\* = a * by (by > 0) the quotient is k * Int16Max / a.  A zero factor gives
\* NaN or an infinity and an infinite factor gives zero or NaN, which all
\* convert to 0.
Quantized(value, absmaxValue) ==
    IF value.kind # "finite" \/ absmaxValue.kind # "finite" THEN 0
    ELSE IF absmaxValue.k = 0 \/ absmaxValue.by.m = 0 THEN 0
    ELSE ToInt16(MathRound(value.k * Int16Max, absmaxValue.k))

\* utils.normalizeInt16, utils.ts lines 66-78; the factor is kept as the
\* absmaxValue it is the quotient of
normalizeInt16(array) ==
    LET absmaxValue == AbsMaxValue(findMinMaxOfSamples(array).max)
    IN  [normalizedArray |-> [i \in 1..Len(array) |-> Quantized(array[i], absmaxValue)],
         absmaxValue |-> absmaxValue]

\* floor and remainder of a * m / d for a, d < 2^16 and m < 10^7, in two
\* steps of four decimal digits so that no intermediate exceeds 2^31
WideDiv(a, m, d) ==
    LET high == a * (m \div 10000)
        low == (high % d) * 10000 + a * (m % 10000)
    IN  <<(high \div d) * 10000 + low \div d, low % d>>

\* the seven significant digits of (q + r / d) * 10^e, the rest rounded to
\* nearest (a tie going up), as the decimal they denote
RECURSIVE SevenDigits(_, _, _, _)
SevenDigits(q, r, d, e) ==
    IF q = 0 /\ r = 0 THEN Dec(0, 0)
    ELSE IF q >= 10000000 THEN SevenDigits(q \div 10, (q % 10) * d + r, 10 * d, e + 1)
    ELSE IF q < 1000000 THEN SevenDigits(q * 10 + (10 * r) \div d, (10 * r) % d, d, e - 1)
    ELSE Dec(IF 2 * r >= d THEN q + 1 ELSE q, e)

\* x.toExponential(6) of a non-negative decimal or of NaN
toExponential(x) ==
    CASE x.kind = "NaN" -> Text("NaN")
      [] x.kind = "Infinity" -> Text("Infinity")
      [] OTHER -> ExpStr(SevenDigits(x.m, 0, 1, x.e))

\* factor.toExponential(6), line 71, of factor = absmaxValue / Int16Max
FactorToExponential(absmaxValue) ==
    IF absmaxValue.kind # "finite" THEN Text("Infinity")
    ELSE LET qr == WideDiv(absmaxValue.k, absmaxValue.by.m, Int16Max)
         IN  ExpStr(SevenDigits(qr[1], qr[2], Int16Max, absmaxValue.by.e))

\* Math.max(...lengths), line 64
RECURSIVE MaxLength(_)
MaxLength(arrays) ==
    IF Len(arrays) = 1 THEN Len(arrays[1])
    ELSE MathMax(Len(arrays[1]), MaxLength(Tail(arrays)))

\* the five blocks of channel idx (1-based), lines 365-371 and 389-392
ChannelBlocks(idx, chan, scaleText) ==
    <<[name |-> "DESC.CHAN_" \o ToString(idx), value |-> chan.Name],
      [name |-> "UNITS.CHAN_" \o ToString(idx), value |-> chan.Units],
      [name |-> "SCALE.CHAN_" \o ToString(idx), value |-> scaleText],
      [name |-> "LOWER_LIMIT.CHAN_" \o ToString(idx), value |-> IntStr(1)],
      [name |-> "UPPER_LIMIT.CHAN_" \o ToString(idx), value |-> IntStr(-1)]>>

RECURSIVE AllChannelBlocks(_, _, _)
AllChannelBlocks(channels, scaleTexts, idx) ==
    IF idx > Len(channels) THEN <<>>
    ELSE ChannelBlocks(idx, channels[idx], scaleTexts[idx])
            \o AllChannelBlocks(channels, scaleTexts, idx + 1)

\* the number of header keys before the channel keys, lines 349-363
CommonKeys == 13

\* writeHeader, lines 344-405: the blocks, then zeros up to 512 * NUM_HEADER_BLOCKS.
\* The DATE value is the wall-clock time, which no reader parses.
writeHeader(dt, channels, scaleTexts, frames, pts_per_group) ==
    LET numParams == CommonKeys + 5 * Len(channels)
    IN  <<[name |-> "FORMAT", value |-> Text("BINARY")],
          [name |-> "NUM_HEADER_BLOCKS", value |-> toString(CeilDiv(numParams, 4))],
          [name |-> "NUM_PARAMS", value |-> toString(numParams)],
          [name |-> "FILE_TYPE", value |-> Text("TIME_HISTORY")],
          [name |-> "TIME_TYPE", value |-> Text("RESPONSE")],
          [name |-> "DELTA_T", value |-> toExponential(dt)],
          [name |-> "CHANNELS", value |-> toString(Len(channels))],
          [name |-> "DATE", value |-> Text("ctime")],
          [name |-> "REPEATS", value |-> IntStr(1)],
          [name |-> "DATA_TYPE", value |-> Text("SHORT_INTEGER")],
          [name |-> "PTS_PER_FRAME", value |-> toString(PTS_PER_FRAME)],
          [name |-> "PTS_PER_GROUP", value |-> toString(pts_per_group)],
          [name |-> "FRAMES", value |-> toString(frames)]>>
        \o AllChannelBlocks(channels, scaleTexts, 1)

\* lines 411-424: a channel shorter than the group is padded with its last item
PaddedData(d, pts_per_group) ==
    IF Len(d) < pts_per_group
    THEN d \o [i \in 1..(pts_per_group - Len(d)) |-> d[Len(d)]]
    ELSE d

\* writeData, lines 407-427
RECURSIVE writeData(_, _)
writeData(data, pts_per_group) ==
    IF data = <<>> THEN <<>>
    ELSE PaddedData(Head(data), pts_per_group) \o writeData(Tail(data), pts_per_group)

\* the number of characters of a string
CharLength(str) ==
    CASE str.kind = "text" -> Len(str.s)
      [] str.kind = "int numeral" -> Len(ToString(str.n))
      [] OTHER -> 10 + Len(ToString(Abs(str.e + Len(ToString(str.m)) - 1)))

\* the length of a string of the given length after padEnd(targetLength):
\* a longer string is left as it is
padEnd(length, targetLength) == MathMax(length, targetLength)

\* lines 396-398: the bytes of one key / value pair
BlockBytes(block) ==
    padEnd(Len(block.name), 32) + padEnd(CharLength(block.value), HeaderBlockLen - 32)

RECURSIVE HeaderLength(_, _)
HeaderLength(blocks, n) ==
    IF n = 0 THEN 0 ELSE BlockBytes(blocks[n]) + HeaderLength(blocks, n - 1)

\* lines 401-402: Buffer.alloc(headerLen - HEADER.length) throws a
\* RangeError for a negative size
HeaderOverflows(blocks) ==
    HeaderLength(blocks, Len(blocks)) > HeaderUnitLen * CeilDiv(Len(blocks), 4)

\* write(channels), lines 59-81, for a non-empty list of non-empty channels
\* whose header does not overflow
write(obj, channels) ==
    LET normalized == [c \in 1..Len(channels) |-> normalizeInt16(channels[c].value)]
        frames == CeilDiv(MaxLength([c \in 1..Len(channels) |->
                                        normalized[c].normalizedArray]), PTS_PER_FRAME)
        blocks == writeHeader(obj.dt, channels,
                      [c \in 1..Len(channels) |-> FactorToExponential(normalized[c].absmaxValue)],
                      frames, frames * PTS_PER_FRAME)
    IN  [blocks |-> blocks,
         blockBytes |-> [i \in 1..Len(blocks) |-> BlockBytes(blocks[i])],
         headerBytes |-> HeaderUnitLen * CeilDiv(Len(blocks), 4),
         data |-> writeData([c \in 1..Len(channels) |-> normalized[c].normalizedArray],
                            frames * PTS_PER_FRAME),
         width |-> 2]

-----------------------------------------------------------------------------
(* The codec specification: a file is decoded, the decoded channels are    *)
(* encoded, and the encoded bytes are decoded by a new RPC object (the     *)
(* sequence of the test "should write and read back", utils.ts 201-221).   *)

\* largest CHANNELS of an input file
MaxChannels == 2
\* largest PTS_PER_FRAME of the input files that vary the layout
MaxPtsPerFrame == 2
\* largest PTS_PER_GROUP / PTS_PER_FRAME of an input file
MaxFramesPerGroup == 2
\* largest FRAMES of an input file
MaxFrames == 3
\* largest number of elements cut off the end of the data section
MaxMissing == 1

\* stored int16 values of the files that vary the sample values
RawSamples == {-2, 0, 1, Int16Max}

\* SCALE.CHAN_n values: "1.000000e+0", "5.000000e-1", "3.051851e-5"
Scales == {Dec(1, 0), Dec(5, -1), Dec(3051851, -11)}

\* DATA_TYPE values of the input files; "(absent)" stands for no DATA_TYPE
\* block, so that the default of line 45 is merged in
DataTypeFields == {"SHORT_INTEGER", "FLOATING_POINT", "DOUBLE", "", "(absent)"}

\* the blocks DESC, UNITS and SCALE of channels idx .. channels
RECURSIVE InputChannelBlocks(_, _, _)
InputChannelBlocks(idx, channels, scale) ==
    IF idx > channels THEN <<>>
    ELSE <<[name |-> "DESC.CHAN_" \o ToString(idx), value |-> Text("load")],
           [name |-> "UNITS.CHAN_" \o ToString(idx), value |-> Text("N")],
           [name |-> "SCALE.CHAN_" \o ToString(idx), value |-> ExpStr(scale)]>>
         \o InputChannelBlocks(idx + 1, channels, scale)

\* the header blocks after the first three
InputBlocks(channels, point_per_frame, frames_per_group, frames, dataType, scale) ==
    <<[name |-> "DELTA_T", value |-> ExpStr(Dec(1, -2))],
      [name |-> "CHANNELS", value |-> IntStr(channels)],
      [name |-> "PTS_PER_FRAME", value |-> IntStr(point_per_frame)],
      [name |-> "PTS_PER_GROUP", value |-> IntStr(frames_per_group * point_per_frame)],
      [name |-> "FRAMES", value |-> IntStr(frames)]>>
    \o (IF dataType = "(absent)" THEN <<>>
        ELSE <<[name |-> "DATA_TYPE", value |-> Text(dataType)]>>)
    \o InputChannelBlocks(1, channels, scale)

\* a file whose header states its own size: the first three blocks in
\* order, the given blocks, zeros up to 512 * NUM_HEADER_BLOCKS, the data
InputFile(more, data, width) ==
    [blocks |->
        <<[name |-> "FORMAT", value |-> Text("BINARY")],
          [name |-> "NUM_HEADER_BLOCKS", value |-> IntStr(CeilDiv(Len(more) + 3, 4))],
          [name |-> "NUM_PARAMS", value |-> IntStr(Len(more) + 3)]>> \o more,
     headerBytes |-> HeaderUnitLen * CeilDiv(Len(more) + 3, 4),
     data |-> data,
     width |-> width]

\* the number of elements the layout calls for
LayoutSize(channels, point_per_frame, frames_per_group, frames) ==
    point_per_frame * frames_per_group * CeilDiv(frames, frames_per_group) * channels

\* files that vary the layout: element p (1-based) of the data section holds
\* 2p - 1, so that every position is told apart and every maximum is odd
LayoutFiles ==
    {InputFile(InputBlocks(channels, point_per_frame, frames_per_group, frames,
                           dataType, Dec(5, -1)),
               [p \in 1..(LayoutSize(channels, point_per_frame, frames_per_group, frames)
                            - missing) |-> 2 * p - 1],
               IF dataType = "FLOATING_POINT" THEN 4 ELSE 2) :
        channels \in 1..MaxChannels, point_per_frame \in 1..MaxPtsPerFrame,
        frames_per_group \in 1..MaxFramesPerGroup, frames \in 1..MaxFrames,
        dataType \in DataTypeFields, missing \in 0..MaxMissing}

\* files that vary the stored values: one SHORT_INTEGER channel of one frame,
\* the frame either two points long or as long as the frames write() makes;
\* the elements after the second repeat the second
ValueFiles ==
    {InputFile(InputBlocks(1, point_per_frame, 1, 1, "SHORT_INTEGER", scale),
               [p \in 1..point_per_frame |-> IF p = 1 THEN first ELSE second],
               2) :
        point_per_frame \in {2, PTS_PER_FRAME}, scale \in Scales,
        first \in RawSamples, second \in RawSamples}

\* the sound file the defective ones are made from: one SHORT_INTEGER
\* channel, one frame of two points
SoundBlocks == InputBlocks(1, 2, 1, 1, "SHORT_INTEGER", Dec(5, -1))

SoundFile == InputFile(SoundBlocks, <<1, 3>>, 2)

\* the blocks with the one named name given another name or value
Replaced(blocks, name, block) ==
    [i \in 1..Len(blocks) |-> IF blocks[i].name = name THEN block ELSE blocks[i]]

\* the blocks in another order: position i takes the block at order[i]
Reordered(blocks, order) ==
    [i \in 1..Len(blocks) |-> IF i <= Len(order) THEN blocks[order[i]] ELSE blocks[i]]

\* files with one defect each
DefectiveFiles ==
    {   \* no bytes at all, and a header cut after two blocks
        [SoundFile EXCEPT !.blocks = <<>>, !.headerBytes = 0, !.data = <<>>],
        [SoundFile EXCEPT !.blocks = SubSeq(@, 1, 2),
                          !.headerBytes = 2 * HeaderBlockLen, !.data = <<>>],
        \* the first three blocks in another order, one of them twice, a
        \* foreign name among them
        [SoundFile EXCEPT !.blocks = Reordered(@, <<3, 1, 2>>)],
        [SoundFile EXCEPT !.blocks = Replaced(@, "NUM_HEADER_BLOCKS", @[1])],
        [SoundFile EXCEPT !.blocks = Replaced(@, "FORMAT",
                                        [name |-> "TITLE", value |-> Text("BINARY")])],
        \* NUM_PARAMS too small or no numeral
        [SoundFile EXCEPT !.blocks = Replaced(@, "NUM_PARAMS",
                                        [name |-> "NUM_PARAMS", value |-> IntStr(3)])],
        [SoundFile EXCEPT !.blocks = Replaced(@, "NUM_PARAMS",
                                        [name |-> "NUM_PARAMS", value |-> Text("many")])],
        \* a mandatory field under a blank name, hence absent
        [SoundFile EXCEPT !.blocks = Replaced(@, "CHANNELS",
                                        [name |-> " ", value |-> IntStr(1)])],
        \* a numeric field that is no numeral
        [SoundFile EXCEPT !.blocks = Replaced(@, "FRAMES",
                                        [name |-> "FRAMES", value |-> Text("abc")])],
        [SoundFile EXCEPT !.blocks = Replaced(@, "DELTA_T",
                                        [name |-> "DELTA_T", value |-> Text("fast")])],
        \* a frame length of zero
        [SoundFile EXCEPT !.blocks = Replaced(@, "PTS_PER_FRAME",
                                        [name |-> "PTS_PER_FRAME", value |-> IntStr(0)])] }

\* the input files of the model.  In each of them the header blocks that
\* the decoder reads lie before the data section, the data section begins
\* at 512 * NUM_HEADER_BLOCKS when that is a number, every count is
\* non-negative, and the elements are as wide as the DATA_TYPE says.
InputFiles == LayoutFiles \cup ValueFiles \cup DefectiveFiles

CodecInit ==
    /\ RfIdle
    /\ EqIdle
    /\ rpcPc = "new"
    /\ rpc \in {NewRPC(bytes, DefaultExtraHeaders) : bytes \in InputFiles}
    /\ rpcRet = NoRet
    /\ written = <<>>
    /\ newRpc = <<>>
    /\ newRpcRet = NoRet
    /\ ChanIdle
    /\ UiIdle

\* rpc.parse()
Parse ==
    /\ rpcPc = "new"
    /\ rpc' = parse(rpc).obj
    /\ rpcRet' = parse(rpc).ret
    /\ rpcPc' = "parsed"
    /\ UNCHANGED <<written, newRpc, newRpcRet>>
    /\ UNCHANGED rfVars
    /\ UNCHANGED eqVars
    /\ UNCHANGED chanVars
    /\ UNCHANGED uiVars

\* rpc.parse() once more, on the object whose first parse returned true
ParseAgain ==
    /\ rpcPc = "parsed"
    /\ rpcRet = Returned(TRUE)
    /\ rpc' = parse(rpc).obj
    /\ rpcRet' = parse(rpc).ret
    /\ rpcPc' = "parsed twice"
    /\ UNCHANGED <<written, newRpc, newRpcRet>>
    /\ UNCHANGED rfVars
    /\ UNCHANGED eqVars
    /\ UNCHANGED chanVars
    /\ UNCHANGED uiVars

\* a name of 97 characters, one more than the value field of a block holds
LongName ==
    "0123456789012345678901234567890123456789012345678901234567890123456789012345678901234567890123456"

\* a name of 4 * 97 characters, more than the zeros after the last block
HugeName == LongName \o LongName \o LongName \o LongName

\* channel.Name = name on the first decoded channel: Name is a public field
\* (part_002 line 31) and write() takes any list of channels
SetName ==
    /\ rpcPc = "parsed"
    /\ rpcRet = Returned(TRUE)
    /\ Len(rpc.Channels) > 0
    /\ rpc.Channels[1].Name \notin {Text(LongName), Text(HugeName)}
    /\ \E name \in {LongName, HugeName} :
          rpc' = [rpc EXCEPT !.Channels[1].Name = Text(name)]
    /\ UNCHANGED <<rpcPc, rpcRet, written, newRpc, newRpcRet>>
    /\ UNCHANGED rfVars
    /\ UNCHANGED eqVars
    /\ UNCHANGED chanVars
    /\ UNCHANGED uiVars

\* rpc.write(rpc.Channels) after a successful decode
Write ==
    /\ rpcPc = "parsed"
    /\ rpcRet = Returned(TRUE)
    /\ IF HeaderOverflows(write(rpc, rpc.Channels).blocks)
       THEN /\ rpcPc' = "write threw"
            /\ UNCHANGED written
       ELSE /\ written' = write(rpc, rpc.Channels)
            /\ rpcPc' = "written"
    /\ UNCHANGED <<rpc, rpcRet, newRpc, newRpcRet>>
    /\ UNCHANGED rfVars
    /\ UNCHANGED eqVars
    /\ UNCHANGED chanVars
    /\ UNCHANGED uiVars

\* newRpc = new RPC(written, ...); newRpc.parse(), for written bytes in which
\* every block begins where parseHeaderBlock looks for it
ParseWritten ==
    /\ rpcPc = "written"
    /\ \A i \in 1..Len(written.blockBytes) : written.blockBytes[i] = HeaderBlockLen
    /\ newRpc' = parse(NewRPC(written, DefaultExtraHeaders)).obj
    /\ newRpcRet' = parse(NewRPC(written, DefaultExtraHeaders)).ret
    /\ rpcPc' = "reparsed"
    /\ UNCHANGED <<rpc, rpcRet, written>>
    /\ UNCHANGED rfVars
    /\ UNCHANGED eqVars
    /\ UNCHANGED chanVars
    /\ UNCHANGED uiVars

CodecNext ==
    \/ Parse
    \/ ParseAgain
    \/ SetName
    \/ Write
    \/ ParseWritten

SpecCodec == CodecInit /\ [][CodecNext]_vars

-----------------------------------------------------------------------------
(* The Channel class (src/unnamed/part_002, lines 5-100): a channel with   *)
(* its samples, on which rainflow and clearRF are called in any order.     *)

\* longest value array of a channel
MaxSamples == 4

\* rf_init, lines 5-11
rf_init ==
    [reversals |-> <<>>, revIdx |-> <<>>, cycles |-> <<>>, residuals |-> <<>>,
     range_counts |-> <<>>]

\* utils.calcDamage, utils.ts lines 123-134, on [range, count, ...] pairs
RECURSIVE calcDamage(_, _)
calcDamage(slope, range_counts) ==
    IF Len(range_counts) < 2 THEN 0
    ELSE MathPow(range_counts[1], slope) * range_counts[2]
             + calcDamage(slope, subarray(range_counts, 2, Len(range_counts)))

\* Channel.damage(slope), lines 61-63
damage(slope) == calcDamage(slope, chanRf.range_counts)

\* largest |_scale| a channel is scaled to
MaxScale == 2

\* the scalars of scaleValue
Scalars == {2}

\* findMinMax(this.value), utils.ts lines 18-26: Infinity and -Infinity stay
\* when there is no sample
ChannelMinMax(value) ==
    IF Len(value) = 0 THEN [min |-> PlusInfinity, max |-> MinusInfinity]
    ELSE findMinMax(value)

\* a decoded channel: constructed (lines 13-41) with scale 1, its samples in
\* value and setMinMax (lines 43-47) applied
ChanInit ==
    /\ chanValue \in SeqsOf(Loads, 0, MaxSamples)
    /\ chanRepetitions = 0
    /\ chanRf = rf_init
    /\ chanCall = [op |-> "new"]
    /\ chanMin = ChannelMinMax(chanValue).min
    /\ chanMax = ChannelMinMax(chanValue).max
    /\ chanScale = 1
    /\ RfIdle
    /\ EqIdle
    /\ CodecIdle
    /\ UiIdle

\* the rf fields after lines 53-58, given what rainflow_counting did; an
\* exception of rainflow_counting leaves the method at line 53
RfAfterCounting(rf, counted, repets) ==
    IF counted.kind = "throw" THEN rf
    ELSE [rf EXCEPT !.cycles = counted.value.cycles,
                    !.residuals = counted.value.residuals,
                    !.range_counts = count_range_cycles(counted.value.cycles, repets)]

\* Channel.rainflow(repets, close_residuals, k), lines 49-59
ChannelRainflow ==
    \E repets \in 1..MaxRepets, close_residuals \in BOOLEAN, k \in 1..MaxBins :
        /\ chanCall.op # "none"
        /\ chanRepetitions' = repets
        /\ chanRf' = RfAfterCounting(chanRf,
                         rainflow_counting(chanValue, close_residuals, k), repets)
        /\ chanCall' = [op |-> "rainflow", repets |-> repets,
                        close_residuals |-> close_residuals, k |-> k,
                        ret |-> rainflow_counting(chanValue, close_residuals, k).kind]
        /\ UNCHANGED <<chanValue, chanMin, chanMax, chanScale>>
        /\ UNCHANGED rfVars
        /\ UNCHANGED eqVars
        /\ UNCHANGED codecVars
        /\ UNCHANGED uiVars

\* Channel.scaleValue(scalar), lines 65-70
ChannelScaleValue ==
    \E scalar \in Scalars :
        /\ chanCall.op # "none"
        /\ Abs(chanScale * scalar) <= MaxScale
        /\ chanScale' = chanScale * scalar
        /\ chanValue' = [i \in 1..Len(chanValue) |-> chanValue[i] * scalar]
        /\ chanCall' = [op |-> "scaleValue", scalar |-> scalar]
        /\ UNCHANGED <<chanRepetitions, chanRf, chanMin, chanMax>>
        /\ UNCHANGED rfVars
        /\ UNCHANGED eqVars
        /\ UNCHANGED codecVars
        /\ UNCHANGED uiVars

\* Channel.clearRF(), lines 96-99
ChannelClearRF ==
    /\ chanCall.op # "none"
    /\ chanRf' = rf_init
    /\ chanRepetitions' = 0
    /\ chanCall' = [op |-> "clearRF"]
    /\ UNCHANGED <<chanValue, chanMin, chanMax, chanScale>>
    /\ UNCHANGED rfVars
    /\ UNCHANGED eqVars
    /\ UNCHANGED codecVars
    /\ UNCHANGED uiVars

ChanNext ==
    \/ ChannelRainflow
    \/ ChannelScaleValue
    \/ ChannelClearRF

SpecChannel == ChanInit /\ [][ChanNext]_vars

-----------------------------------------------------------------------------
(* Cross-event aggregation (rainflow.ts, combine_channels_range_counts):   *)
(* Init draws channels that were counted with open residues and an events  *)
(* list; one action applies the function.  Loads that went through a       *)
(* counting with k bins are carried in units of 1 / (2k).                  *)

\* the default bin count of rainflow_counting, k = 2 ** 12
DefaultBins == 4096

\* longest value array of a combined channel
MaxCombineSamples == 4

\* largest load of a combined channel: the slope products of the re-counting,
\* in units of 1 / (2 * DefaultBins), stay within 32 bits
MaxCombineLoad == 2

\* most channels in one combination
MaxCombined == 2

\* most events in the events list
MaxEvents == 2

\* file hashes of channels and events
Hashes == {"a", "b"}

\* count_unique_ranges, lines 346-353: one Map.set per [range, count] pair
RECURSIVE RangeMapOfCounts(_, _, _)
RangeMapOfCounts(range_counts, i, rangeMap) ==
    IF i >= Len(range_counts) THEN rangeMap
    ELSE RangeMapOfCounts(range_counts, i + 2,
             MapAdd(rangeMap, range_counts[i + 1], range_counts[i + 2]))

\* count_unique_ranges, lines 344-366
count_unique_ranges(range_counts) ==
    FlattenRangeMap(UniqueRangesSorted(RangeMapOfCounts(range_counts, 0, EmptyMap)),
                    RangeMapOfCounts(range_counts, 0, EmptyMap))

\* events.find(i => i.hash === fileHash), from position i on; 0 when none
RECURSIVE FindEvent(_, _, _)
FindEvent(events, fileHash, i) ==
    IF i > Len(events) THEN 0
    ELSE IF events[i].hash = fileHash THEN i
    ELSE FindEvent(events, fileHash, i + 1)

\* lines 400 and 409: events.find(...)?.repetitions || 1
EventRepetitions(events, fileHash) ==
    IF FindEvent(events, fileHash, 1) = 0 THEN 1
    ELSE IF events[FindEvent(events, fileHash, 1)].repetitions = 0 THEN 1
    ELSE events[FindEvent(events, fileHash, 1)].repetitions

\* lines 410-413: residuals written repetitions times back-to-back
RECURSIVE RepeatedResiduals(_, _)
RepeatedResiduals(residuals, repetitions) ==
    IF repetitions <= 0 THEN <<>>
    ELSE residuals \o RepeatedResiduals(residuals, repetitions - 1)

\* lines 398-414, over the first n channels
RECURSIVE TotalResiduals(_, _, _)
TotalResiduals(channels, events, n) ==
    IF n = 0 THEN <<>>
    ELSE TotalResiduals(channels, events, n - 1)
             \o RepeatedResiduals(channels[n].residuals,
                                  EventRepetitions(events, channels[n].fileHash))

\* lines 387-395: the range_counts of the first n channels, concatenated
RECURSIVE ConcatRangeCounts(_, _)
ConcatRangeCounts(channels, n) ==
    IF n = 0 THEN <<>>
    ELSE ConcatRangeCounts(channels, n - 1) \o channels[n].range_counts

\* the ranges of [range, count, ...] pairs in units of 1 / (2k)
RangesInUnits(range_counts, k) ==
    [i \in 1..Len(range_counts) |->
        IF i % 2 = 1 THEN range_counts[i] * Unit(k) ELSE range_counts[i]]

\* lines 417-429, given what rainflow_counting(totalResiduals, true) did
CombineAfterCounting(rangeCounts, counted) ==
    IF counted.kind = "throw" THEN counted
    ELSE Returned([residualCycles |-> counted.value.cycles,
                   rangeCounts |-> count_unique_ranges(
                       RangesInUnits(rangeCounts, DefaultBins)
                           \o count_range_cycles(counted.value.cycles, 1))])

\* combine_channels_range_counts, lines 382-430
combine_channels_range_counts(channels, events) ==
    CombineAfterCounting(ConcatRangeCounts(channels, Len(channels)),
        rainflow_counting(TotalResiduals(channels, events, Len(channels)),
                          TRUE, DefaultBins))

\* a channel after Channel.rainflow(repets, false, k): what the combination reads
CountedChannel(value, repets, k, fileHash) ==
    [range_counts |-> count_range_cycles(
                          rainflow_counting(value, FALSE, k).value.cycles, repets),
     residuals |-> rainflow_counting(value, FALSE, k).value.residuals,
     fileHash |-> fileHash]

CountedChannels ==
    {CountedChannel(value, repets, 1, fileHash) :
        value \in SeqsOf(0..MaxCombineLoad, 2, MaxCombineSamples),
        repets \in 1..MaxRepets, fileHash \in Hashes}

CombineCalls ==
    [op : {"combine_channels_range_counts"},
     channels : SeqsOf(CountedChannels, 1, MaxCombined),
     events : SeqsOf([hash : Hashes, repetitions : 1..MaxRepets], 0, MaxEvents)]

CombineInit ==
    /\ rfCall \in CombineCalls
    /\ rfRet = NoRet
    /\ rfRetOpen = NoRet
    /\ rfPc = "idle"
    /\ rfI = 0
    /\ rfStack = <<>>
    /\ rfCycles = <<>>
    /\ EqIdle
    /\ CodecIdle
    /\ ChanIdle
    /\ UiIdle

CombineChannels ==
    /\ rfCall.op = "combine_channels_range_counts"
    /\ rfRet = NoRet
    /\ rfRet' = combine_channels_range_counts(rfCall.channels, rfCall.events)
    /\ UNCHANGED <<rfCall, rfRetOpen, rfPc, rfI, rfStack, rfCycles>>
    /\ UNCHANGED eqVars
    /\ UNCHANGED codecVars
    /\ UNCHANGED chanVars
    /\ UNCHANGED uiVars

CombineNext == CombineChannels

SpecCombine == CombineInit /\ [][CombineNext]_vars

-----------------------------------------------------------------------------

(* Level crossing (rainflow.ts, level_crossing): Init draws the cycle       *)
(* lists, their repetitions and binCount; one action applies the function.  *)
(* With totW the sum of the weights, levels are carried in units of         *)
(* 1 / (totW * (binCount - 1)), in which the mean and every bin edge are    *)
(* integers.                                                                *)

\* most signals in rfList
MaxSignals == 2

\* most [peak, valley] pairs of one signal
MaxLevelCycles == 2

\* largest binCount
MaxBinCount == 4

\* largest peak or valley of a cycle
MaxLevelLoad == 2

\* lines 530-536: the maxima, then the minima
CombinedValues(columns) ==
    [i \in 1..(2 * Len(columns)) |->
        IF i <= Len(columns) THEN columns[i].maxOfCycle
        ELSE columns[i - Len(columns)].minOfCycle]

\* lines 532-536: cycleRepets, twice
CombinedWeights(columns) ==
    [i \in 1..(2 * Len(columns)) |->
        IF i <= Len(columns) THEN columns[i].cycleReptes
        ELSE columns[i - Len(columns)].cycleReptes]

\* lines 541-548: sumVal += v * w, over the first n entries
RECURSIVE WeightedSum(_, _, _)
WeightedSum(combined, weights, n) ==
    IF n = 0 THEN 0
    ELSE WeightedSum(combined, weights, n - 1) + combined[n] * weights[n]

\* lines 541-548: totW += w, over the first n entries
RECURSIVE TotalWeight(_, _)
TotalWeight(weights, n) ==
    IF n = 0 THEN 0 ELSE TotalWeight(weights, n - 1) + weights[n]

\* one level in the units of the bin edges
LevelUnit(weights, binCount) == TotalWeight(weights, Len(weights)) * (binCount - 1)

\* line 552: linspace(minVal, meanVal, binCount), meanVal = sumVal / totW
binsPos(combined, weights, binCount) ==
    linspace(ScanMin(combined, 1, combined[1]) * LevelUnit(weights, binCount),
             WeightedSum(combined, weights, Len(combined)) * (binCount - 1),
             binCount)

\* line 553: linspace(meanVal, maxVal, binCount)
binsNeg(combined, weights, binCount) ==
    linspace(WeightedSum(combined, weights, Len(combined)) * (binCount - 1),
             ScanMax(combined, 1, combined[1]) * LevelUnit(weights, binCount),
             binCount)

\* lines 601-606: the first j with bins[j] <= x < bins[j + 1]; 0 when the
\* search ends without a bin
RECURSIVE BinSearch(_, _, _)
BinSearch(x, bins, j) ==
    IF j > Len(bins) - 1 THEN 0
    ELSE IF x >= bins[j] /\ x < bins[j + 1] THEN j
    ELSE BinSearch(x, bins, j + 1)

\* lines 597-607: what the first n data values add to bin j
RECURSIVE BinCount(_, _, _, _, _, _)
BinCount(data, weights, bins, unit, j, n) ==
    IF n = 0 THEN 0
    ELSE BinCount(data, weights, bins, unit, j, n - 1)
             + (IF BinSearch(data[n] * unit, bins, 1) = j THEN weights[n] ELSE 0)

\* histogram, lines 595-609; data in plain levels, bins in 1 / unit
histogram(data, weights, bins, unit) ==
    [counts |-> [j \in 1..(Len(bins) - 1) |->
                    BinCount(data, weights, bins, unit, j, Len(data))],
     binEdges |-> bins]

\* cumulativeSum, lines 618-626
RECURSIVE SumUpTo(_, _)
SumUpTo(arr, n) == IF n = 0 THEN 0 ELSE SumUpTo(arr, n - 1) + arr[n]

cumulativeSum(arr) == [i \in 1..Len(arr) |-> SumUpTo(arr, i)]

\* lines 563-569: 1, the forward sums, the backward sums, 1
MergeCsums(posCsum, negCsum) == <<1>> \o posCsum \o reverse(negCsum) \o <<1>>

\* lines 571-576: the first edge twice and the edges below the mean, then the
\* edges above the mean and the last edge twice
MergeEdges(posEdges, negEdges) ==
    <<posEdges[1]>> \o subarray(posEdges, 0, Len(posEdges) - 1)
        \o subarray(negEdges, 1, Len(negEdges)) \o <<negEdges[Len(negEdges)]>>

\* lines 551-578 for at least one cycle
LevelCrossingOf(combined, weights, binCount) ==
    <<MergeCsums(
          cumulativeSum(histogram(combined, weights,
                                  binsPos(combined, weights, binCount),
                                  LevelUnit(weights, binCount)).counts),
          cumulativeSum(histogram(combined, weights,
                                  binsNeg(combined, weights, binCount),
                                  LevelUnit(weights, binCount)).counts)),
      MergeEdges(binsPos(combined, weights, binCount),
                 binsNeg(combined, weights, binCount))>>

\* lines 538-578 without a cycle: minVal, maxVal and 0 / 0 are not numbers,
\* no bin is counted and every edge is NaN
LevelCrossingOfNothing(binCount) ==
    <<(<<1>> \o [j \in 1..(2 * (binCount - 1)) |-> 0] \o <<1>>),
      [j \in 1..(2 * binCount) |-> NaN]>>

\* level_crossing, lines 525-579
level_crossing(rfList, repetitions, binCount) ==
    IF parseAllRainflowData(rfList, repetitions, 1).kind = "throw"
    THEN parseAllRainflowData(rfList, repetitions, 1)
    ELSE IF Len(parseAllRainflowData(rfList, repetitions, 1).value) = 0
    THEN Returned(LevelCrossingOfNothing(binCount))
    ELSE Returned(LevelCrossingOf(
             CombinedValues(parseAllRainflowData(rfList, repetitions, 1).value),
             CombinedWeights(parseAllRainflowData(rfList, repetitions, 1).value),
             binCount))

\* even-length [peak, valley, ...] arrays of at most MaxLevelCycles pairs
LevelCycles ==
    UNION {[1..(2 * n) -> 0..MaxLevelLoad] : n \in 0..MaxLevelCycles}

LevelCalls ==
    UNION {[op : {"level_crossing"}, rfList : [1..n -> LevelCycles],
            repetitions : [1..n -> 1..MaxRepets], binCount : 2..MaxBinCount]
           : n \in 1..MaxSignals}

LevelInit ==
    /\ rfCall \in LevelCalls
    /\ rfRet = NoRet
    /\ rfRetOpen = NoRet
    /\ rfPc = "idle"
    /\ rfI = 0
    /\ rfStack = <<>>
    /\ rfCycles = <<>>
    /\ EqIdle
    /\ CodecIdle
    /\ ChanIdle
    /\ UiIdle

LevelCrossing ==
    /\ rfCall.op = "level_crossing"
    /\ rfRet = NoRet
    /\ rfRet' = level_crossing(rfCall.rfList, rfCall.repetitions, rfCall.binCount)
    /\ UNCHANGED <<rfCall, rfRetOpen, rfPc, rfI, rfStack, rfCycles>>
    /\ UNCHANGED eqVars
    /\ UNCHANGED codecVars
    /\ UNCHANGED chanVars
    /\ UNCHANGED uiVars

LevelNext == LevelCrossing

SpecLevel == LevelInit /\ [][LevelNext]_vars

-----------------------------------------------------------------------------

(* The page (FilesContext, ChannelsContext, ChannelTable, the drop zone):  *)
(* the files and channels contexts and the table's selectedChannels, with  *)
(* one action per event handler.  A handler's dispatches are applied       *)
(* together, before the next event.                                        *)

\* most files in the files context
MaxFiles == 2

\* channels of a file
MaxFileChannels == 2

\* RPC.hash of the files that can be dropped
FileHashes == {"a", "b"}

\* a decoded file: its hash and its Channels, each carrying the file's hash
RPCFile(hash) ==
    [hash |-> hash,
     Channels |-> [number \in 1..MaxFileChannels |->
                      [Number |-> number, fileHash |-> hash]]]

\* Channel.hash: generateHash(Number + Name + filename) + fileHash
ChannelHash(channel) == <<channel.Number, channel.fileHash>>

\* ChannelTable lines 45-57: one row per channel of every file
RECURSIVE tableData(_)
tableData(files) ==
    IF Len(files) = 0 THEN <<>>
    ELSE tableData(subarray(files, 0, Len(files) - 1))
             \o [c \in 1..Len(files[Len(files)].Channels) |->
                    [id |-> ChannelHash(files[Len(files)].Channels[c]),
                     channelRef |-> files[Len(files)].Channels[c]]]

\* filesReducer, ADD_FILE
AddFileTo(files, payload) == Append(files, payload)

\* filesReducer, REMOVE_FILE: files.filter((file) => file.hash !== action.hash)
RECURSIVE RemoveFileFrom(_, _)
RemoveFileFrom(files, hash) ==
    IF Len(files) = 0 THEN <<>>
    ELSE (IF files[1].hash # hash THEN <<files[1]>> ELSE <<>>)
             \o RemoveFileFrom(Tail(files), hash)

\* channelsReducer, REMOVE_CHANNELS_BY_FILEHASH:
\* channels.filter(i => i.fileHash != action.payload)
RECURSIVE RemoveChannelsByFileHash(_, _)
RemoveChannelsByFileHash(chans, payload) ==
    IF Len(chans) = 0 THEN <<>>
    ELSE (IF chans[1].fileHash # payload THEN <<chans[1]>> ELSE <<>>)
             \o RemoveChannelsByFileHash(Tail(chans), payload)

\* selected.map(i => i.channelRef)
ChannelRefs(selected) == [i \in 1..Len(selected) |-> selected[i].channelRef]

\* ChannelTable lines 77-78: the rows whose channel belongs to a file of files
RECURSIVE FilterValid(_, _)
FilterValid(selected, files) ==
    IF Len(selected) = 0 THEN <<>>
    ELSE (IF \E f \in 1..Len(files) : files[f].hash = selected[1].channelRef.fileHash
          THEN <<selected[1]>> ELSE <<>>)
             \o FilterValid(Tail(selected), files)

\* selected.findIndex((item) => item.id === rowData.id), 1-based, 0 when none
RECURSIVE FindIndexOfId(_, _, _)
FindIndexOfId(selected, id, i) ==
    IF i > Len(selected) THEN 0
    ELSE IF selected[i].id = id THEN i
    ELSE FindIndexOfId(selected, id, i + 1)

\* ChannelTable lines 86-96: splice the row out when selected, else push it
ToggleRow(selected, rowData) ==
    IF FindIndexOfId(selected, rowData.id, 1) > 0
    THEN subarray(selected, 0, FindIndexOfId(selected, rowData.id, 1) - 1)
             \o subarray(selected, FindIndexOfId(selected, rowData.id, 1), Len(selected))
    ELSE Append(selected, rowData)

\* the page as mounted: no file, nothing selected
UiInit ==
    /\ ctxFiles = <<>>
    /\ ctxChannels = <<>>
    /\ selectedChannels = <<>>
    /\ RfIdle
    /\ EqIdle
    /\ CodecIdle
    /\ ChanIdle

\* a file is dropped and decoded: addFile(rpc)
AddFile ==
    \E hash \in FileHashes :
        /\ Len(ctxFiles) < MaxFiles
        /\ ctxFiles' = AddFileTo(ctxFiles, RPCFile(hash))
        /\ UNCHANGED <<ctxChannels, selectedChannels>>
        /\ UNCHANGED rfVars
        /\ UNCHANGED eqVars
        /\ UNCHANGED codecVars
        /\ UNCHANGED chanVars

\* handleFileRemove(hash): removeFile(hash); removeFileChannels(hash)
HandleFileRemove ==
    \E f \in 1..Len(ctxFiles) :
        /\ ctxFiles' = RemoveFileFrom(ctxFiles, ctxFiles[f].hash)
        /\ ctxChannels' = RemoveChannelsByFileHash(ctxChannels, ctxFiles[f].hash)
        /\ UNCHANGED selectedChannels
        /\ UNCHANGED rfVars
        /\ UNCHANGED eqVars
        /\ UNCHANGED codecVars
        /\ UNCHANGED chanVars

\* the values the table hands to onSelectionChange: the selection it was
\* given with one of its rows toggled, all of its rows, or none
SelectionValues ==
    {ToggleRow(selectedChannels, tableData(ctxFiles)[r]) :
        r \in 1..Len(tableData(ctxFiles))}
        \cup {tableData(ctxFiles), <<>>}

\* handleSelectionChange(e), lines 73-82
HandleSelectionChange ==
    \E value \in SelectionValues :
        /\ selectedChannels' = FilterValid(value, ctxFiles)
        /\ ctxChannels' = ChannelRefs(FilterValid(value, ctxFiles))
        /\ UNCHANGED ctxFiles
        /\ UNCHANGED rfVars
        /\ UNCHANGED eqVars
        /\ UNCHANGED codecVars
        /\ UNCHANGED chanVars

\* handleRowClick(e), lines 84-99
HandleRowClick ==
    \E r \in 1..Len(tableData(ctxFiles)) :
        /\ selectedChannels' = ToggleRow(selectedChannels, tableData(ctxFiles)[r])
        /\ ctxChannels' = ChannelRefs(ToggleRow(selectedChannels, tableData(ctxFiles)[r]))
        /\ UNCHANGED ctxFiles
        /\ UNCHANGED rfVars
        /\ UNCHANGED eqVars
        /\ UNCHANGED codecVars
        /\ UNCHANGED chanVars

\* clearSelection(), lines 101-104
ClearSelection ==
    /\ selectedChannels' = <<>>
    /\ ctxChannels' = <<>>
    /\ UNCHANGED ctxFiles
    /\ UNCHANGED rfVars
    /\ UNCHANGED eqVars
    /\ UNCHANGED codecVars
    /\ UNCHANGED chanVars

UiNext ==
    \/ AddFile
    \/ HandleFileRemove
    \/ HandleSelectionChange
    \/ HandleRowClick
    \/ ClearSelection

SpecUi == UiInit /\ [][UiNext]_vars

-----------------------------------------------------------------------------

(* Properties of the rainflow engine (SpecRainflow)                        *)

\* the 1-based pair numbers of a flat [a, b, a, b, ...] array
PairsOf(flat) == 1..(Len(flat) \div 2)

\* |end - start| of pair p of a flat cycle array
RangeOfPair(cycles, p) == Abs(cycles[2 * p] - cycles[2 * p - 1])

\* sum of f[x] over the finite set S
RECURSIVE SumOver(_, _)
SumOver(f, S) ==
    IF S = {} THEN 0
    ELSE LET x == CHOOSE y \in S : TRUE
         IN  f[x] + SumOver(f, S \ {x})

\* consecutive differences are non-zero and change sign at every step
StrictlyAlternating(s) ==
    /\ \A i \in 1..(Len(s) - 1) : s[i + 1] # s[i]
    /\ \A i \in 1..(Len(s) - 2) : (s[i + 1] - s[i]) * (s[i + 2] - s[i + 1]) < 0

IsPrefix(a, b) == Len(a) <= Len(b) /\ \A i \in 1..Len(a) : a[i] = b[i]

\* C5: count_range_cycles returns an even-length [r, c, r, c, ...] array whose
\* ranges are strictly decreasing, are exactly the ranges of the input pairs,
\* and whose counts are repetitions times the number of input pairs of that
\* range.
C5_RangeCountMonotone ==
    (rfCall.op = "count_range_cycles" /\ rfRet.kind = "return") =>
        /\ Len(rfRet.value) % 2 = 0
        /\ \A p \in PairsOf(rfRet.value) :
            /\ p > 1 => rfRet.value[2 * p - 1] < rfRet.value[2 * p - 3]
            /\ rfRet.value[2 * p] = rfCall.repets *
                   Cardinality({q \in PairsOf(rfCall.cycles) :
                       RangeOfPair(rfCall.cycles, q) = rfRet.value[2 * p - 1]})
        /\ {rfRet.value[2 * p - 1] : p \in PairsOf(rfRet.value)}
             = {RangeOfPair(rfCall.cycles, q) : q \in PairsOf(rfCall.cycles)}

\* C5 happens: two pairs of different range counted with repetitions 2
C5_Witness ==
    /\ rfCall.op = "count_range_cycles"
    /\ rfRet.kind = "return"
    /\ rfCall.repets = 2
    /\ Len(rfCall.cycles) = 4
    /\ Len(rfRet.value) = 4

\* the ranges of a [range, count, ...] input that pass the gate
RetainedRanges(data, gate) ==
    LET maxRange == CHOOSE m \in {0} \cup {data[2 * p - 1] : p \in PairsOf(data)} :
                        \A p \in PairsOf(data) : data[2 * p - 1] <= m
    IN  {data[2 * p - 1] : p \in {q \in PairsOf(data) :
                                     data[2 * q - 1] * 100 > maxRange * gate}}

\* the counts of all input pairs whose range is retained and at least r
CountAtOrAbove(data, gate, r) ==
    SumOver([p \in PairsOf(data) |-> data[2 * p]],
            {p \in PairsOf(data) : /\ data[2 * p - 1] \in RetainedRanges(data, gate)
                                   /\ data[2 * p - 1] >= r})

C7_ClosureOnlyAdds ==
    (rfCall.op = "rainflow_counting" /\ rfRet.kind = "return"
         /\ rfRetOpen.kind = "return") =>
        /\ IsPrefix(rfRetOpen.value.cycles, rfRet.value.cycles)
        /\ Len(rfRet.value.cycles) >= Len(rfRetOpen.value.cycles)
        /\ rfRet.value.reversals = rfRetOpen.value.reversals
        /\ rfRet.value.revIdx = rfRetOpen.value.revIdx
        /\ rfRet.value.residuals = rfRetOpen.value.residuals

\* C7 happens: closing the residue adds a cycle to a non-empty cycle list
C7_Witness ==
    /\ rfCall.op = "rainflow_counting"
    /\ rfRet.kind = "return"
    /\ rfRetOpen.kind = "return"
    /\ Len(rfRetOpen.value.cycles) > 0
    /\ Len(rfRet.value.cycles) > Len(rfRetOpen.value.cycles)

\* C8: for strictly alternating A and B of length >= 2, whenever
\* concatenateReversals(A, B) returns, the result is strictly alternating.
C8_ConcatKeepsAlternation ==
    (/\ rfCall.op = "concatenateReversals"
     /\ rfRet.kind = "return"
     /\ Len(rfCall.rev1) >= 2 /\ StrictlyAlternating(rfCall.rev1)
     /\ Len(rfCall.rev2) >= 2 /\ StrictlyAlternating(rfCall.rev2))
        => StrictlyAlternating(rfRet.value)

\* C8 fails on A = [0, 1], B = [3, 2] (t1 < 0, t2 >= 0): the join drops B[0]
\* and returns the monotone [0, 1, 2]
C8_MonotoneJoin ==
    /\ rfCall.op = "concatenateReversals"
    /\ rfCall.rev1 = <<0, 1>>
    /\ rfCall.rev2 = <<3, 2>>
    /\ rfRet = Returned(<<0, 1, 2>>)

-----------------------------------------------------------------------------
(* Properties of the equivalent-signal builder (SpecEq)                    *)

\* eqDmgSignal has returned rows (it has not thrown)
EqReturned == eqPc = "returned" /\ eqRet.kind = "return"

\* sum of row.blockDamage over the returned rows
RECURSIVE SumBlockDamage(_, _)
SumBlockDamage(rows, n) ==
    IF n = 0 THEN 0 ELSE rows[n].blockDamage + SumBlockDamage(rows, n - 1)

\* sum over all input cycles of repetitions * range^slope; sColumns holds
\* one row per input cycle
RECURSIVE InputDamage(_, _, _)
InputDamage(cols, slope, n) ==
    IF n = 0 THEN 0
    ELSE cols[n].cycleReptes * MathPow(cols[n].maxOfCycle - cols[n].minOfCycle, slope)
             + InputDamage(cols, slope, n - 1)

\* C2: on every input on which eqDmgSignal returns, the blockDamage of the
\* returned rows sums to the damage of all input cycles.
C2_MinerSumPreserved ==
    EqReturned =>
        SumBlockDamage(eqRet.value, Len(eqRet.value))
            = InputDamage(sColumns, eqCall.slope, Len(sColumns))

\* C2 fails on the single signal [1, 0, 2, 0] (blocksNumber 1, no floor,
\* slope 1): the input damage is 1 + 2, the one returned block holds 2
C2_SmallestCycleLost ==
    /\ EqReturned
    /\ Len(sColumns) = 2
    /\ sColumns[1].range = 1
    /\ sColumns[2].range = 2
    /\ eqCall.slope = 1
    /\ Len(eqRet.value) = 1
    /\ eqRet.value[1].blockDamage = 2

\* the repetitions of the rows sum to at least minNumOfCycles
RepetitionSumAtLeast(rows, minNumOfCycles) ==
    IF \E i \in 1..Len(rows) : rows[i].repetition.kind = "NaN" THEN FALSE
    ELSE IF \E i \in 1..Len(rows) : rows[i].repetition.kind = "Infinity" THEN TRUE
    ELSE SumQ(rows, Len(rows)) + (SumF(rows, Len(rows)) \div RepOne) >= minNumOfCycles

\* C3: eqDmgSignal either reports insufficient cycles or returns rows whose
\* repetitions sum to at least minNumOfCycles.
C3_FloorReached ==
    EqReturned => RepetitionSumAtLeast(eqRet.value, eqCall.minNumOfCycles)

\* C3 fails when the scale factor runs out: one block of repetition 1
\* returned for a floor of 2 after 10001 subtractions
C3_ScaleRanOut ==
    /\ EqReturned
    /\ scaleIter = ScaleSteps + 1
    /\ eqCall.minNumOfCycles = 2
    /\ Len(eqRet.value) = 1
    /\ eqRet.value[1].repetition = [kind |-> "number", q |-> 1, f |-> 0]


\* the scaling loop has been left
ScalingLoopLeft == eqPc \in {"adjust", "returned"}

\* the number of times the body of while (true) was entered, once the loop
\* is left: every entry subtracted 0.0001 (scaleIter counts these) except a
\* last one that broke at line 500
IterationsRun ==
    IF ScaleExhausted(scaleIter) THEN scaleIter ELSE scaleIter + 1

ValidEqInput ==
    /\ Len(sColumns) >= 1
    /\ eqCall.blocksNumber >= 1
    /\ TotalNumCyclesOriginal(sColumns, Len(sColumns)) >= eqCall.minNumOfCycles

\* C30: for every well-formed input with at least one cycle, blocksNumber >=
\* 1 and a sum of repetitions >= minNumOfCycles, eqDmgSignal returns without
\* raising, and the result has at least 1 and at most blocksNumber rows; a
\* single cycle, or fewer cycles than blocksNumber, included.
C30_AlwaysYieldsBlocks ==
    (eqPc \in {"returned", "thrown"} /\ ValidEqInput) =>
        /\ eqRet.kind = "return"
        /\ Len(eqRet.value) >= 1
        /\ Len(eqRet.value) <= eqCall.blocksNumber

\* C30 fails on a single cycle: the boundaries [0, 0] hold no cycle, no block
\* is built, and the scaling loop reads eqSignal[0] of an empty signal
C30_SingleCycleThrows ==
    /\ eqPc = "thrown"
    /\ Len(sColumns) = 1
    /\ eqCall.blocksNumber = 1
    /\ eqCall.minNumOfCycles = 0
    /\ eqSig = <<>>
    /\ eqRet = Thrown("TypeError: eqSig[0] is undefined")

\* with two cycles or more the call returns, with 1 to blocksNumber rows
YieldsBlocksOnTwoCycles ==
    (eqPc \in {"returned", "thrown"} /\ ValidEqInput /\ Len(sColumns) >= 2) =>
        /\ eqRet.kind = "return"
        /\ Len(eqRet.value) >= 1
        /\ Len(eqRet.value) <= eqCall.blocksNumber

\* C4: in every returned signal, with signalMax the mean field of the
\* highest-range block (the first row) and signalMin = signalMax minus that
\* block's range, every block has blockMean - range / 2 >= signalMin and
\* blockMean + range / 2 <= signalMax.  Means are in units of 1 / (2 FxOne),
\* ranges in units of 1 / FxOne.
C4_MeanClipContainment ==
    (EqReturned /\ Len(eqRet.value) > 0) =>
        LET signalMax == eqRet.value[1].mean
            signalMin == eqRet.value[1].mean - 2 * eqRet.value[1].range
        IN  \A i \in 1..Len(eqRet.value) :
                /\ eqRet.value[i].range <= eqRet.value[1].range
                /\ eqRet.value[i].blockMean - eqRet.value[i].range >= signalMin
                /\ eqRet.value[i].blockMean + eqRet.value[i].range <= signalMax

\* C4 happens: two blocks returned, and the mean of the lower one was moved
\* up from below signalMin (eqSig holds the rows before the adjustment,
\* lowest block first)
C4_Witness ==
    /\ EqReturned
    /\ Len(eqRet.value) = 2
    /\ eqSig[1].blockMean - eqSig[1].range < eqSig[2].mean - 2 * eqSig[2].range
    /\ eqRet.value[2].blockMean # eqSig[1].blockMean

-----------------------------------------------------------------------------
(* Properties of the codec (SpecCodec)                                     *)

\* hi * 10^4 + lo times 10^e with the trailing zeros moved into e
RECURSIVE StripWide(_, _, _)
StripWide(hi, lo, e) ==
    IF hi = 0 /\ lo = 0 THEN <<0, 0, 0>>
    ELSE IF lo % 10 = 0 THEN StripWide(hi \div 10, (hi % 10) * 1000 + lo \div 10, e + 1)
    ELSE <<hi, lo, e>>

\* the sign and the exact magnitude |k| * m * 10^e of a finite sample, in a
\* form that is the same for equal numbers
ExactValue(x) ==
    LET low == Abs(x.k) * (x.by.m % 10000)
        high == Abs(x.k) * (x.by.m \div 10000) + low \div 10000
        digits == StripWide(high, low % 10000, x.by.e)
    IN  [sign |-> IF digits = <<0, 0, 0>> THEN 0 ELSE IF x.k < 0 THEN -1 ELSE 1,
         digits |-> digits]

SameNumber(x, y) ==
    x.kind = "finite" /\ y.kind = "finite" /\ ExactValue(x) = ExactValue(y)

\* the decode / encode / decode sequence is over, on a SHORT_INTEGER file
RoundTripDone ==
    /\ rpcPc = "reparsed"
    /\ rpc.Headers["DATA_TYPE"] = Text("SHORT_INTEGER")

SameLengths ==
    /\ Len(newRpc.Channels) = Len(rpc.Channels)
    /\ \A i \in 1..Len(rpc.Channels) :
          Len(newRpc.Channels[i].value) = Len(rpc.Channels[i].value)

\* C1: whenever a SHORT_INTEGER file was decoded with success to channels C,
\* decoding the bytes of write(C) succeeds too and gives channels with the
\* same number of samples and the same value at every position.
C1_RoundTripIdentity ==
    RoundTripDone =>
        /\ newRpcRet = Returned(TRUE)
        /\ SameLengths
        /\ \A i \in 1..Len(rpc.Channels) : \A p \in 1..Len(rpc.Channels[i].value) :
              SameNumber(newRpc.Channels[i].value[p], rpc.Channels[i].value[p])

\* C1, the divergence: the second decode gives as many samples as the
\* first, and a sample that was negative comes back positive
C1_SignFlipped ==
    /\ RoundTripDone
    /\ newRpcRet = Returned(TRUE)
    /\ SameLengths
    /\ \E p \in 1..Len(rpc.Channels[1].value) :
          /\ ExactValue(rpc.Channels[1].value[p]).sign = -1
          /\ ExactValue(newRpc.Channels[1].value[p]).sign = 1

\* C9: whenever parse() has returned false, Channels is empty.
C9_NoPartialChannel ==
    rpcRet = Returned(FALSE) => rpc.Channels = <<>>

\* C9, the divergence: parse() returned false on the size check of readData
\* and the channels that readHeader pushed are still there, without samples
C9_ChannelsLeftBehind ==
    /\ rpcRet = Returned(FALSE)
    /\ Len(rpc.Errors) = 1
    /\ Len(rpc.Channels) > 0
    /\ rpc.Headers["CHANNELS"] = Num(Len(rpc.Channels))
    /\ \A i \in 1..Len(rpc.Channels) : rpc.Channels[i].value = <<>>

\* the DATA_TYPE the decoder worked with is neither of the two known ones
UnknownDataType ==
    /\ "DATA_TYPE" \in DOMAIN rpc.Headers
    /\ rpc.Headers["DATA_TYPE"] \notin {Text("FLOATING_POINT"), Text("SHORT_INTEGER"), Text("")}

\* C10: parse() ends by returning true or false and raises nothing; on a
\* DATA_TYPE other than FLOATING_POINT and SHORT_INTEGER it returns false
\* and leaves a message in Errors.
C10_ParseNeverThrows ==
    rpcPc # "new" =>
        /\ rpcRet.kind = "return"
        /\ UnknownDataType => (rpcRet = Returned(FALSE) /\ rpc.Errors # <<>>)

\* C10, the divergence: the header passed every check with DATA_TYPE DOUBLE
\* and readData raised a TypeError, with nothing in Errors
C10_UnknownDataTypeThrows ==
    /\ rpcRet = Thrown("TypeError")
    /\ rpc.Headers["DATA_TYPE"] = Text("DOUBLE")
    /\ rpc.Errors = <<>>

\* parse() of the first RPC object, called once, has returned true
Decoded == rpcPc \notin {"new", "parsed twice"} /\ rpcRet = Returned(TRUE)

\* C11: after parse() returned true on a fresh RPC object there are CHANNELS
\* channels and each of them holds exactly FRAMES * PTS_PER_FRAME samples,
\* also when the last group is padded.
C11_DecodedShape ==
    Decoded =>
        /\ Len(rpc.Channels) = rpc.Headers["CHANNELS"].n
        /\ \A c \in 1..Len(rpc.Channels) :
              Len(rpc.Channels[c].value)
                  = rpc.Headers["FRAMES"].n * rpc.Headers["PTS_PER_FRAME"].n

\* C11: a decoded file of two channels whose three frames come in groups of
\* two, so that the second group holds a padding frame
C11_PaddedLastGroup ==
    /\ Decoded
    /\ rpc.Headers["CHANNELS"] = Num(2)
    /\ rpc.Headers["FRAMES"] = Num(3)
    /\ rpc.Headers["PTS_PER_GROUP"].n = 2 * rpc.Headers["PTS_PER_FRAME"].n
    /\ Len(rpc.bytes.data) > 2 * 3 * rpc.Headers["PTS_PER_FRAME"].n

\* the names of the first three header blocks of the input file
FirstThreeNames ==
    [i \in 1..MathMin(3, Len(rpc.bytes.blocks)) |-> rpc.bytes.blocks[i].name]

\* C12: parse() returns false unless the first three header blocks are
\* named FORMAT, NUM_HEADER_BLOCKS, NUM_PARAMS in this order.
C12_PrefixOrderEnforced ==
    (rpcPc # "new" /\ FirstThreeNames # <<"FORMAT", "NUM_HEADER_BLOCKS", "NUM_PARAMS">>)
        => rpcRet = Returned(FALSE)

\* C12, the divergence: the file begins with NUM_PARAMS, FORMAT,
\* NUM_HEADER_BLOCKS and parse() returned true with decoded channels
C12_ReorderedPrefixAccepted ==
    /\ Decoded
    /\ FirstThreeNames = <<"NUM_PARAMS", "FORMAT", "NUM_HEADER_BLOCKS">>
    /\ rpc.Errors = <<>>
    /\ Len(rpc.Channels) = 1 /\ Len(rpc.Channels[1].value) = 2

\* the mandatory fields, and those of them that hold numbers
MandatoryFields ==
    {"CHANNELS", "DELTA_T", "PTS_PER_FRAME", "PTS_PER_GROUP", "FRAMES", "DATA_TYPE"}
        \cup (IF "DATA_TYPE" \in DOMAIN rpc.Headers
                    /\ rpc.Headers["DATA_TYPE"] = Text("SHORT_INTEGER")
              THEN {"INT_FULL_SCALE"} ELSE {})

NumericFields == MandatoryFields \ {"DATA_TYPE"}

\* a mandatory field is absent, or a numeric one holds no number (NaN once
\* converted, a text before)
MalformedHeader ==
    \E field \in MandatoryFields :
        \/ field \notin DOMAIN rpc.Headers
        \/ field \in NumericFields /\ rpc.Headers[field].kind \in {"NaN", "text"}

\* C13: when a mandatory field is absent after the defaults are merged, or a
\* mandatory numeric field (DELTA_T included) is not a number, parse()
\* returns false and Errors holds a message.
C13_MalformedHeaderRejected ==
    (rpcPc # "new" /\ MalformedHeader) => (rpcRet = Returned(FALSE) /\ rpc.Errors # <<>>)

\* C13, the divergence: DELTA_T holds a text, parseFloat made it NaN, and
\* parse() returned true with no message
C13_TextDeltaTAccepted ==
    /\ Decoded
    /\ rpc.Headers["DELTA_T"] = NaN
    /\ rpc.dt = NaN
    /\ rpc.Errors = <<>>

\* the scale the samples of channel c (1-based) were multiplied by
AppliedScale(c) ==
    IF DataTypeOf(rpc.Headers) = Text("SHORT_INTEGER") THEN rpc.Channels[c].scale
    ELSE Dec(1, 0)

\* C14: after a successful parse, sample i of channel c (both 0-based) is the
\* stored element (g * CHANNELS + c) * G + o of the data section times the
\* channel scale (SHORT_INTEGER) or 1 (FLOATING_POINT), with G =
\* framesPerGroup * PTS_PER_FRAME, g = i div G and o = i mod G.
C14_Demultiplexing ==
    Decoded =>
        LET CHANNELS == rpc.Headers["CHANNELS"].n
            G == (rpc.Headers["PTS_PER_GROUP"].n \div rpc.Headers["PTS_PER_FRAME"].n)
                    * rpc.Headers["PTS_PER_FRAME"].n
        IN  \A c \in 0..(CHANNELS - 1) :
            \A i \in 0..(rpc.Headers["FRAMES"].n * rpc.Headers["PTS_PER_FRAME"].n - 1) :
                rpc.Channels[c + 1].value[i + 1]
                    = Times(rpc.bytes.data[((i \div G) * CHANNELS + c) * G + (i % G) + 1],
                            AppliedScale(c + 1))

\* C14: two channels, two groups of two frames of two points each, the
\* second group padded, decoded
C14_TwoGroupsTwoChannels ==
    /\ C11_PaddedLastGroup
    /\ rpc.Headers["PTS_PER_FRAME"] = Num(2)
    /\ rpc.Channels[2].value[5].k = 25

-----------------------------------------------------------------------------
(* Properties of the equivalent-signal builder: rejection, block order.    *)

\* the sum, over the cycles of every input signal, of the signal's repetitions
RECURSIVE SumOfCycleRepetitions(_, _, _)
SumOfCycleRepetitions(rfList, repetitions, iSig) ==
    IF iSig > Len(rfList) THEN 0
    ELSE (Len(rfList[iSig]) \div 2) * repetitions[iSig]
            + SumOfCycleRepetitions(rfList, repetitions, iSig + 1)

InsufficientCycles ==
    SumOfCycleRepetitions(eqCall.rfList, eqCall.repetitions, 1) < eqCall.minNumOfCycles

\* C15: a call of eqDmgSignal whose cycles sum up to fewer repetitions than
\* minNumOfCycles ends in the insufficient-cycles error, returns no rows and
\* leaves rfList and repetitions as they were.
C15_InsufficientCyclesRejected ==
    [][(eqPc = "call" /\ InsufficientCycles) =>
          /\ eqPc' = "thrown"
          /\ eqRet' = Thrown("Original signal has less cycles than requested minimum.")
          /\ eqCall'.rfList = eqCall.rfList
          /\ eqCall'.repetitions = eqCall.repetitions]_vars

\* C15: a call with one cycle and a floor of two repetitions was rejected
C15_OneCycleFloorTwo ==
    /\ eqPc = "thrown"
    /\ eqRet = Thrown("Original signal has less cycles than requested minimum.")
    /\ Len(eqCall.rfList) = 1
    /\ Len(eqCall.rfList[1]) = 2
    /\ eqCall.minNumOfCycles = 2
    /\ InsufficientCycles

\* max(maxOfCycle) - min(minOfCycle) over all input cycles, of which sColumns
\* holds one row each, in the unit 1 / FxOne of the ranges of the rows
GlobalLoadRange ==
    LET highest == CHOOSE x \in {sColumns[i].maxOfCycle : i \in 1..Len(sColumns)} :
                       \A i \in 1..Len(sColumns) : sColumns[i].maxOfCycle <= x
        lowest == CHOOSE x \in {sColumns[i].minOfCycle : i \in 1..Len(sColumns)} :
                       \A i \in 1..Len(sColumns) : sColumns[i].minOfCycle >= x
    IN  (highest - lowest) * FxOne

\* C16: on every input on which eqDmgSignal returns a non-empty signal, the
\* range of the first returned row equals max(maxOfCycle) - min(minOfCycle)
\* over all input cycles, also when no scaling iteration ran.
C16_FirstBlockSpansSignal ==
    (EqReturned /\ Len(eqRet.value) > 0) => eqRet.value[1].range = GlobalLoadRange

\* C16 fails on the single signal [1, 0, 4, 3] without a floor: the signal
\* spans 0..4, no scaling pass ran and the first row keeps the range 1 of
\* the largest cycle
C16_NoPassNoForcing ==
    /\ EqReturned
    /\ scaleIter = 0
    /\ eqCall.minNumOfCycles = 0
    /\ Len(sColumns) = 2
    /\ GlobalLoadRange = 4 * FxOne
    /\ Len(eqRet.value) > 0
    /\ eqRet.value[1].range = 1 * FxOne

\* C17: the rows returned by eqDmgSignal are ordered by non-increasing range.
C17_NonIncreasingRange ==
    EqReturned =>
        \A j \in 1..(Len(eqRet.value) - 1) :
            eqRet.value[j].range >= eqRet.value[j + 1].range

\* C17 happens: three blocks returned after scaling passes that shrank the
\* range of the middle block below the one it was built with
C17_ScaledMiddleBlock ==
    /\ EqReturned
    /\ Len(eqRet.value) = 3
    /\ scaleIter > 0
    /\ eqRet.value[2].range < eqSigMaxRed[2].range

-----------------------------------------------------------------------------
(* Properties of the codec: the normalization of write()                   *)

\* the channels have been encoded
Encoded == rpcPc \in {"written", "reparsed"}

\* a channel holds a sample other than zero
HasNonZeroSample(chan) ==
    \E i \in 1..Len(chan.value) :
        chan.value[i].kind # "finite"
            \/ (chan.value[i].k # 0 /\ chan.value[i].by.m # 0)

\* element i (1-based) of channel c as write() stored it: channel c fills
\* the c-th of the equal parts of the data section
StoredInt16(c, i) ==
    written.data[(c - 1) * (Len(written.data) \div Len(rpc.Channels)) + i]

\* round(value / factor) is finite, lies in -Int16Max .. Int16Max and is the
\* integer stored, for factor = absmaxValue / Int16Max
QuotientKept(value, absmaxValue, stored) ==
    /\ value.kind = "finite"
    /\ absmaxValue.kind = "finite"
    /\ absmaxValue.k > 0
    /\ MathRound(value.k * Int16Max, absmaxValue.k) >= -Int16Max
    /\ MathRound(value.k * Int16Max, absmaxValue.k) <= Int16Max
    /\ stored = MathRound(value.k * Int16Max, absmaxValue.k)

\* C19: for every encoded channel with a sample other than zero, every
\* quotient round(sample / factor) of normalizeInt16 lies in -32767 .. 32767
\* and is stored in the Int16Array as it is, without wrapping around.
C19_QuotientFitsInt16 ==
    Encoded =>
        \A c \in 1..Len(rpc.Channels) :
            HasNonZeroSample(rpc.Channels[c]) =>
                \A i \in 1..Len(rpc.Channels[c].value) :
                    QuotientKept(rpc.Channels[c].value[i],
                                 normalizeInt16(rpc.Channels[c].value).absmaxValue,
                                 StoredInt16(c, i))

\* C19 fails on the samples [-2, 1] (times the scale 1): the factor is
\* 1 / 32767, the quotient of -2 is -65534 and the Int16Array holds 2
C19_NegativePeakWrapped ==
    /\ rpcPc = "written"
    /\ Len(rpc.Channels) = 1
    /\ Len(rpc.Channels[1].value) = 2
    /\ rpc.Channels[1].value[1] = Sample(-2, Dec(1, 0))
    /\ rpc.Channels[1].value[2] = Sample(1, Dec(1, 0))
    /\ written.data[1] = 2
    /\ written.data[2] = Int16Max

-----------------------------------------------------------------------------
(* Properties of findRainflowCyclesStack (SpecStack)                       *)

\* sub is seq with some entries left out, the order kept
RECURSIVE IsSubsequence(_, _)
IsSubsequence(sub, seq) ==
    IF sub = <<>> THEN TRUE
    ELSE IF seq = <<>> THEN FALSE
    ELSE IF Head(sub) = Head(seq) THEN IsSubsequence(Tail(sub), Tail(seq))
    ELSE IsSubsequence(sub, Tail(seq))

\* findRainflowCyclesStack has returned <<closedCycles, residue>>
StackReturned == rfPc = "done" /\ rfRet.kind = "return"

\* twice the number of emitted cycles plus the residue is the input, and the
\* residue is a subsequence of the input
ReversalsConserved ==
    StackReturned =>
        /\ 2 * (Len(rfRet.value[1]) \div 2) + Len(rfRet.value[2]) = Len(rfCall.reversals)
        /\ Len(rfRet.value[1]) % 2 = 0
        /\ IsSubsequence(rfRet.value[2], rfCall.reversals)

\* a step that emits a cycle emits the pair (S1, S2) below the top of the
\* stack, whose range is at most that of (S0, S1) and that of (S2, S3)
EmittedUnderFourPointRule ==
    rfCycles' # rfCycles =>
        /\ Len(rfStack) >= 4
        /\ rfCycles' = rfCycles \o <<rfStack[Len(rfStack) - 2], rfStack[Len(rfStack) - 1]>>
        /\ Abs(rfStack[Len(rfStack) - 1] - rfStack[Len(rfStack) - 2])
               <= Abs(rfStack[Len(rfStack) - 2] - rfStack[Len(rfStack) - 3])
        /\ Abs(rfStack[Len(rfStack) - 1] - rfStack[Len(rfStack) - 2])
               <= Abs(rfStack[Len(rfStack)] - rfStack[Len(rfStack) - 1])
        /\ rfStack' = subarray(rfStack, 0, Len(rfStack) - 3) \o <<rfStack[Len(rfStack)]>>

\* C20: for every reversal sequence R, findRainflowCyclesStack terminates,
\* 2 * (number of emitted cycles) + length(residue) = length(R), the residue
\* is a subsequence of R in the original order, and every emitted pair
\* (S1, S2) had |S2 - S1| <= |S1 - S0| and |S2 - S1| <= |S3 - S2| for its
\* stack neighbours S0 and S3 when it was emitted.
C20_FourPointConservation ==
    /\ []ReversalsConserved
    /\ [][EmittedUnderFourPointRule]_vars
    /\ (rfCall.op = "findRainflowCyclesStack") ~> StackReturned

\* C20 happens: of five reversals one cycle was emitted and three were left
C20_OneCycleOfFive ==
    /\ StackReturned
    /\ Len(rfCall.reversals) = 5
    /\ Len(rfRet.value[1]) = 2
    /\ Len(rfRet.value[2]) = 3

\* the step-by-step run returns what the function computed in one piece does
StackRunAgrees ==
    StackReturned => rfRet.value = findRainflowCyclesStack(rfCall.reversals)

-----------------------------------------------------------------------------
(* Properties of the Channel class (SpecChannel)                           *)

\* nothing is cached
CacheEmpty ==
    /\ chanRf.cycles = <<>>
    /\ chanRf.residuals = <<>>
    /\ chanRf.range_counts = <<>>

\* the cache is what counted, the outcome of rainflow_counting on the
\* current samples, determines for repets: its cycles and residuals and the
\* range counts of its cycles, and nothing when it threw
CacheDeterminedBy(counted, repets) ==
    IF counted.kind = "return"
    THEN /\ chanRf.cycles = counted.value.cycles
         /\ chanRf.residuals = counted.value.residuals
         /\ chanRf.range_counts = count_range_cycles(counted.value.cycles, repets)
    ELSE CacheEmpty

\* C18: after any sequence of rainflow and clearRF calls, the cached cycles,
\* residuals, range_counts and repetitions are those determined by the
\* current samples and the arguments of the most recent rainflow call,
\* nothing of earlier calls remaining; and right after clearRF the cache is
\* empty, repetitions is 0 and damage(slope) is 0.
C18_CacheIsLastCall ==
    /\ chanCall.op = "rainflow" =>
          /\ chanRepetitions = chanCall.repets
          /\ CacheDeterminedBy(rainflow_counting(chanValue, chanCall.close_residuals,
                                                 chanCall.k), chanCall.repets)
    /\ chanCall.op = "clearRF" =>
          /\ CacheEmpty
          /\ chanRepetitions = 0
          /\ \A slope \in Slopes : damage(slope) = 0

\* C18 fails on the constant samples [0, 0]: rainflow(1, false, 1) caches
\* the residuals [0, 0]; rainflow(2, true, 1) then sets repetitions to 2 and
\* throws in rainflow_counting, and the residuals of the first call stay
C18_StaleCacheAfterThrow ==
    /\ chanValue = <<0, 0>>
    /\ chanCall.op = "rainflow"
    /\ chanCall.close_residuals
    /\ chanCall.ret = "throw"
    /\ chanRepetitions = 2
    /\ chanRf.residuals = <<0, 0>>


\* min <= every sample <= max
MinMaxValid ==
    \A i \in 1..Len(chanValue) : chanMin <= chanValue[i] /\ chanValue[i] <= chanMax

\* damage(slope) is the Miner sum of a rainflow count of the current samples
\* with the cached repetitions
DamageOfCurrentSamples ==
    \E close_residuals \in BOOLEAN, k \in 1..MaxBins :
        /\ rainflow_counting(chanValue, close_residuals, k).kind = "return"
        /\ \A slope \in Slopes :
               damage(slope)
                   = calcDamage(slope, count_range_cycles(
                         rainflow_counting(chanValue, close_residuals, k).value.cycles,
                         chanRepetitions))

\* C26: on a decoded Channel, after any sequence of scaleValue, rainflow and
\* clearRF calls, min <= every sample <= max still holds and damage(slope) is
\* the Miner sum of the rainflow count of the current samples: scaleValue
\* leaves no stale min / max and no stale range_counts.
C26_MinMaxAndDamageCurrent ==
    chanCall.op # "none" =>
        /\ MinMaxValid
        /\ (chanRepetitions > 0 /\ chanRf.range_counts # <<>>) => DamageOfCurrentSamples

\* C26 fails after scaleValue(2) on the samples [1, 2]: they are [2, 4] now,
\* min and max are still 1 and 2
C26_SampleAboveMax ==
    /\ chanCall = [op |-> "scaleValue", scalar |-> 2]
    /\ chanValue = <<2, 4>>
    /\ chanScale = 2
    /\ chanMin = 1
    /\ chanMax = 2

\* the cached range counts are those of the samples before they were scaled
StaleRangeCounts ==
    /\ chanCall.op = "scaleValue"
    /\ chanRepetitions > 0
    /\ chanRf.range_counts # <<>>
    /\ ~DamageOfCurrentSamples

\* min and max are those of the samples as long as scaleValue was not called
MinMaxValidUnscaled == (chanCall.op # "none" /\ chanScale = 1) => MinMaxValid

\* a rainflow call that returns leaves exactly its own results
ReturnedCallFillsCache ==
    (chanCall.op = "rainflow" /\ chanCall.ret = "return") =>
        /\ chanRepetitions = chanCall.repets
        /\ CacheDeterminedBy(rainflow_counting(chanValue, chanCall.close_residuals,
                                               chanCall.k), chanCall.repets)

\* the closing condition of the four-point rule on entries i .. i + 3
ClosesAt(seq, i) ==
    /\ Abs(seq[i + 2] - seq[i + 1]) <= Abs(seq[i + 1] - seq[i])
    /\ Abs(seq[i + 2] - seq[i + 1]) <= Abs(seq[i + 3] - seq[i + 2])

\* C24: in the residue returned by findRainflowCyclesStack no four
\* consecutive values S0, S1, S2, S3 satisfy |S2 - S1| <= |S1 - S0| and
\* |S2 - S1| <= |S3 - S2|.
C24_ResidueFullyReduced ==
    StackReturned =>
        \A i \in 1..(Len(rfRet.value[2]) - 3) : ~ClosesAt(rfRet.value[2], i)

\* C24 happens: six reversals, one cycle emitted from the top of the stack,
\* and the four that are left were never together the top four before
C24_ResidueOfFourAfterEmission ==
    /\ StackReturned
    /\ Len(rfCall.reversals) = 6
    /\ Len(rfRet.value[1]) = 2
    /\ Len(rfRet.value[2]) = 4
    /\ rfRet.value[2] # subarray(rfCall.reversals, 0, 4)
    /\ rfRet.value[2] # subarray(rfCall.reversals, 2, 6)

\* C25: for every signal of length >= 2, rainflow_counting(S, true, k) and
\* Channel.rainflow(r, true, k) return without raising.
C25_ClosureIsTotal ==
    (chanCall.op = "rainflow" /\ chanCall.close_residuals /\ Len(chanValue) >= 2)
        => chanCall.ret = "return"

\* C25 fails on the constant samples [1, 1, 1]: the first rainflow call on
\* the channel, with close_residuals, throws and caches nothing
C25_ConstantSignalThrows ==
    /\ chanValue = <<1, 1, 1>>
    /\ chanCall.op = "rainflow"
    /\ chanCall.close_residuals
    /\ chanCall.ret = "throw"
    /\ rainflow_counting(chanValue, TRUE, chanCall.k)
           = Thrown("Invalid concatenation - repeated end/start value?")
    /\ chanRf = rf_init

\* the value of the block of the written header that bears the name
WrittenValue(name) ==
    written.blocks[CHOOSE i \in 1..Len(written.blocks) : written.blocks[i].name = name].value

\* the written header: blocks of 128 bytes, NUM_PARAMS = 13 + 5 * CHANNELS of
\* them, in NUM_HEADER_BLOCKS * 512 bytes
WrittenHeaderShape ==
    /\ \A i \in 1..Len(written.blocks) : written.blockBytes[i] = 128
    /\ Len(written.blocks) = 13 + 5 * Len(rpc.Channels)
    /\ WrittenValue("NUM_PARAMS") = IntStr(13 + 5 * Len(rpc.Channels))
    /\ WrittenValue("CHANNELS") = IntStr(Len(rpc.Channels))
    /\ written.headerBytes = WrittenValue("NUM_HEADER_BLOCKS").n * 512
    /\ 128 * Len(written.blocks) <= written.headerBytes

\* the written data: CHANNELS * FRAMES * 1024 int16 samples with FRAMES =
\* ceil(maxLen / 1024), each channel followed by copies of its last sample
WrittenDataShape ==
    LET maxLen == CHOOSE n \in {Len(rpc.Channels[c].value) : c \in 1..Len(rpc.Channels)} :
                      \A c \in 1..Len(rpc.Channels) : Len(rpc.Channels[c].value) <= n
        FRAMES == (maxLen + 1023) \div 1024
    IN  /\ WrittenValue("FRAMES") = IntStr(FRAMES)
        /\ written.width = 2
        /\ Len(written.data) = Len(rpc.Channels) * FRAMES * 1024
        /\ \A c \in 1..Len(rpc.Channels) :
           \A i \in (Len(rpc.Channels[c].value) + 1)..(FRAMES * 1024) :
               written.data[(c - 1) * FRAMES * 1024 + i]
                   = written.data[(c - 1) * FRAMES * 1024 + Len(rpc.Channels[c].value)]

\* C23: for every non-empty list of channels with at least one sample each,
\* write returns a header of NUM_HEADER_BLOCKS * 512 bytes in blocks of 128
\* bytes with NUM_PARAMS = 13 + 5 * CHANNELS, followed by CHANNELS * FRAMES
\* * 1024 int16 samples, FRAMES = ceil(maxLen / 1024), shorter channels
\* padded with their last sample; and parse() of the written bytes returns
\* true with the same number of channels.
C23_WrittenFileDecodable ==
    /\ rpcPc # "write threw"
    /\ Encoded => (WrittenHeaderShape /\ WrittenDataShape)
    /\ rpcPc = "reparsed" =>
          (newRpcRet = Returned(TRUE) /\ Len(newRpc.Channels) = Len(rpc.Channels))

\* C23 fails for a channel whose Name has 97 characters: the block of
\* DESC.CHAN_1, the 14th, is written with 129 bytes and the blocks after it
\* begin one byte late
C23_BlockOf129Bytes ==
    /\ rpcPc = "written"
    /\ Len(rpc.Channels) = 1
    /\ rpc.Channels[1].Name = Text(LongName)
    /\ written.blocks[14].name = "DESC.CHAN_1"
    /\ written.blockBytes[14] = 129
    /\ written.blockBytes[15] = 128

\* the channels are written under the names they were decoded with
DecodedNames ==
    \A c \in 1..Len(rpc.Channels) :
        rpc.Channels[c].Name \notin {Text(LongName), Text(HugeName)}

\* with names that fit the value field, the written file is as C23 says
WrittenFileDecodableForShortNames ==
    DecodedNames =>
        /\ rpcPc # "write threw"
        /\ Encoded => (WrittenHeaderShape /\ WrittenDataShape)
        /\ rpcPc = "reparsed" =>
              (newRpcRet = Returned(TRUE) /\ Len(newRpc.Channels) = Len(rpc.Channels))


-----------------------------------------------------------------------------
(* Properties of the cross-event aggregation (SpecCombine)                 *)

Combined == rfCall.op = "combine_channels_range_counts" /\ rfRet # NoRet

\* sum of the counts that [range, count, ...] pairs give to the range rng
RECURSIVE CountOfRange(_, _, _)
CountOfRange(range_counts, rng, n) ==
    IF n = 0 THEN 0
    ELSE (IF range_counts[2 * n - 1] = rng THEN range_counts[2 * n] ELSE 0)
             + CountOfRange(range_counts, rng, n - 1)

\* the same sum over the range_counts of the first n channels, the ranges
\* taken in the units of the returned cycles
RECURSIVE ChannelsCountOfRange(_, _, _)
ChannelsCountOfRange(channels, rng, n) ==
    IF n = 0 THEN 0
    ELSE CountOfRange(RangesInUnits(channels[n].range_counts, DefaultBins), rng,
                      Len(channels[n].range_counts) \div 2)
             + ChannelsCountOfRange(channels, rng, n - 1)

\* number of [peak, valley] pairs of cycles whose range is rng
PairsWithRange(cycles, rng) ==
    Cardinality({p \in PairsOf(cycles) : RangeOfPair(cycles, p) = rng})

\* the ranges are strictly decreasing
StrictlyDecreasingRanges(range_counts) ==
    \A p \in 1..(Len(range_counts) \div 2 - 1) :
        range_counts[2 * p - 1] > range_counts[2 * p + 1]

\* every range of ranges has in range_counts the count the channels and the
\* residual cycles give it
CountsConserved(range_counts, channels, residualCycles, ranges) ==
    \A rng \in ranges :
        CountOfRange(range_counts, rng, Len(range_counts) \div 2)
            = ChannelsCountOfRange(channels, rng, Len(channels))
                  + PairsWithRange(residualCycles, rng)

\* the ranges named by the result, by a channel or by a residual cycle
RangesNamed(range_counts, channels, residualCycles) ==
    {range_counts[2 * p - 1] : p \in PairsOf(range_counts)}
        \cup {RangeOfPair(residualCycles, p) : p \in PairsOf(residualCycles)}
        \cup UNION {{channels[c].range_counts[2 * p - 1] * Unit(DefaultBins) :
                        p \in PairsOf(channels[c].range_counts)} :
                    c \in 1..Len(channels)}

\* the repetitions of the event whose hash is fileHash
RepetitionsOfEvent(events, fileHash) ==
    events[CHOOSE i \in 1..Len(events) :
               /\ events[i].hash = fileHash
               /\ \A j \in 1..(i - 1) : events[j].hash # fileHash].repetitions

EveryChannelHasEvent(channels, events) ==
    \A c \in 1..Len(channels) :
        \E i \in 1..Len(events) : events[i].hash = channels[c].fileHash

\* seq is, channel after channel, the channel's residue written r_i times
RECURSIVE ResidueCopies(_, _, _, _, _)
ResidueCopies(seq, channels, events, c, from) ==
    IF c > Len(channels) THEN from = Len(seq)
    ELSE /\ Len(seq) >= from + Len(channels[c].residuals)
                            * RepetitionsOfEvent(events, channels[c].fileHash)
         /\ \A r \in 0..(RepetitionsOfEvent(events, channels[c].fileHash) - 1) :
                subarray(seq, from + r * Len(channels[c].residuals),
                         from + (r + 1) * Len(channels[c].residuals))
                    = channels[c].residuals
         /\ ResidueCopies(seq, channels, events, c + 1,
                from + Len(channels[c].residuals)
                           * RepetitionsOfEvent(events, channels[c].fileHash))

\* what the claim says of a call that returned
ReturnedConservesCounts ==
    /\ StrictlyDecreasingRanges(rfRet.value.rangeCounts)
    /\ CountsConserved(rfRet.value.rangeCounts, rfCall.channels,
                       rfRet.value.residualCycles,
                       RangesNamed(rfRet.value.rangeCounts, rfCall.channels,
                                   rfRet.value.residualCycles))
    /\ \A p \in PairsOf(rfRet.value.rangeCounts) : rfRet.value.rangeCounts[2 * p] > 0

\* C21: for every list of channels counted with open residues and every
\* events list, combine_channels_range_counts returns rangeCounts with
\* strictly decreasing ranges in which the count of each range is the sum of
\* that range's counts over all channels' range_counts plus the number of
\* returned residualCycles pairs of that range; and the re-counted residue
\* sequence holds each channel's residue exactly r_i times, r_i being the
\* repetitions of the event whose hash is the channel's fileHash.
C21_AggregationConservesCounts ==
    Combined =>
        /\ rfRet.kind = "return"
        /\ ReturnedConservesCounts
        /\ EveryChannelHasEvent(rfCall.channels, rfCall.events)
               => ResidueCopies(TotalResiduals(rfCall.channels, rfCall.events,
                                               Len(rfCall.channels)),
                                rfCall.channels, rfCall.events, 1, 0)

\* C21 fails on one channel of constant samples: its open residue is the
\* two-point reversal [v, v], and closing the re-counted residue throws
C21_ConstantChannelThrows ==
    /\ rfCall.op = "combine_channels_range_counts"
    /\ Len(rfCall.channels) = 1
    /\ rfCall.channels[1] = CountedChannel(<<1, 1>>, 2, 1, "a")
    /\ rfCall.events = <<[hash |-> "a", repetitions |-> 2]>>
    /\ rfRet = Thrown("Invalid concatenation - repeated end/start value?")

\* every combination that returns conserves the counts and repeats the
\* residues as the events say
CombineConservesWhenReturned ==
    (Combined /\ rfRet.kind = "return") =>
        /\ ReturnedConservesCounts
        /\ EveryChannelHasEvent(rfCall.channels, rfCall.events)
               => ResidueCopies(TotalResiduals(rfCall.channels, rfCall.events,
                                               Len(rfCall.channels)),
                                rfCall.channels, rfCall.events, 1, 0)

\* a combination throws only when the repeated residues are all one value
CombineThrowsOnlyOnConstant ==
    (Combined /\ rfRet.kind = "throw") =>
        \A i \in 1..Len(TotalResiduals(rfCall.channels, rfCall.events,
                                       Len(rfCall.channels))) :
            TotalResiduals(rfCall.channels, rfCall.events, Len(rfCall.channels))[i]
                = TotalResiduals(rfCall.channels, rfCall.events,
                                 Len(rfCall.channels))[1]


-----------------------------------------------------------------------------
(* Properties of the level crossing (SpecLevel)                            *)

LevelReturned == rfCall.op = "level_crossing" /\ rfRet.kind = "return"

\* the columns of the call
LevelColumns == parseAllRainflowData(rfCall.rfList, rfCall.repetitions, 1).value

\* the number of bins of bins in which the level x lies
BinsHolding(x, bins) ==
    Cardinality({j \in 1..(Len(bins) - 1) : x >= bins[j] /\ x < bins[j + 1]})

\* the bins of both histograms in which entry i of the maxima and minima lies
BinsOfEntry(combined, weights, binCount, i) ==
    BinsHolding(combined[i] * LevelUnit(weights, binCount),
                binsPos(combined, weights, binCount))
        + BinsHolding(combined[i] * LevelUnit(weights, binCount),
                      binsNeg(combined, weights, binCount))

\* the total of all bin counts of both histograms, read from the returned
\* cumulative curve: the last forward sum and the first backward sum
TotalOfBinCounts == rfRet.value[1][rfCall.binCount] + rfRet.value[1][rfCall.binCount + 1]

\* C22: in level_crossing every cycle maximum and every cycle minimum (the
\* global maximum, the global minimum and the weighted mean included) adds
\* its weight to exactly one bin of exactly one of the two histograms, so the
\* bin counts of both histograms total 2 * (sum of cycleRepets).
C22_NoWeightLost ==
    (LevelReturned /\ Len(LevelColumns) > 0) =>
        /\ \A i \in 1..(2 * Len(LevelColumns)) :
               BinsOfEntry(CombinedValues(LevelColumns), CombinedWeights(LevelColumns),
                           rfCall.binCount, i) = 1
        /\ TotalOfBinCounts = 2 * TotalNumCyclesOriginal(LevelColumns, Len(LevelColumns))

\* C22 fails on the single cycle [0, 2]: the minimum 0 is counted, the
\* maximum 2 is the right edge of the last bin and is counted nowhere (the
\* edges 0, 0, 2, 2 are returned in halves)
C22_GlobalMaximumDropped ==
    /\ rfCall.op = "level_crossing"
    /\ rfCall.rfList = <<(<<0, 2>>)>>
    /\ rfCall.repetitions = <<1>>
    /\ rfCall.binCount = 2
    /\ rfRet = Returned(<<(<<1, 1, 0, 1>>), (<<0, 0, 4, 4>>)>>)

\* what the histograms do count: an entry lies in exactly one bin unless it
\* is the global maximum, which lies in none
OnlyGlobalMaximumDropped ==
    (LevelReturned /\ Len(LevelColumns) > 0) =>
        \A i \in 1..(2 * Len(LevelColumns)) :
            BinsOfEntry(CombinedValues(LevelColumns), CombinedWeights(LevelColumns),
                        rfCall.binCount, i)
                = IF CombinedValues(LevelColumns)[i]
                         = ScanMax(CombinedValues(LevelColumns), 1,
                                   CombinedValues(LevelColumns)[1])
                  THEN 0 ELSE 1


-----------------------------------------------------------------------------
(* Properties of a repeated decode (SpecCodec)                             *)

\* C27: parse() called again on an RPC object whose first parse returned true
\* returns true again and leaves as many Channels as the header CHANNELS
\* says: the channels are not appended a second time.
C27_ParseRepeatable ==
    rpcPc = "parsed twice" =>
        /\ rpcRet = Returned(TRUE)
        /\ rpc.Headers["CHANNELS"] = Num(Len(rpc.Channels))

\* C27 fails on a file of one channel: the second parse returns true and
\* leaves two Channels, the second without samples
C27_ChannelsDoubled ==
    /\ rpcPc = "parsed twice"
    /\ rpcRet = Returned(TRUE)
    /\ rpc.Headers["CHANNELS"] = Num(1)
    /\ Len(rpc.Channels) = 2
    /\ rpc.Channels[1].value # <<>>
    /\ rpc.Channels[2].value = <<>>

\* the second parse returns true and leaves twice CHANNELS channels, the
\* first CHANNELS of them decoded
SecondParseDoublesChannels ==
    rpcPc = "parsed twice" =>
        /\ rpcRet = Returned(TRUE)
        /\ rpc.Headers["CHANNELS"].kind = "number"
        /\ Len(rpc.Channels) = 2 * rpc.Headers["CHANNELS"].n
        /\ \A c \in 1..Len(rpc.Channels) :
               (rpc.Channels[c].value = <<>>) <=> (c > rpc.Headers["CHANNELS"].n)


-----------------------------------------------------------------------------
(* Properties of the page (SpecUi)                                         *)

\* the channel belongs to a file of the files context
BelongsToLoadedFile(channel) ==
    \E f \in 1..Len(ctxFiles) : ctxFiles[f].hash = channel.fileHash

\* C28: in every state reachable by adding files, removing a file, changing
\* the table selection, clicking a table row and clearing the selection,
\* every channel of the channels context has the fileHash of a file that is
\* in the files context.
C28_SelectedChannelsOfLoadedFiles ==
    \A c \in 1..Len(ctxChannels) : BelongsToLoadedFile(ctxChannels[c])

\* C28 fails after: drop a and b, click a row of a, remove a, click a row of
\* b.  The table's selectedChannels kept the row of a, and the click writes
\* it back into the channels context
C28_ChannelOfRemovedFile ==
    /\ Len(ctxFiles) = 1
    /\ ctxFiles[1].hash = "b"
    /\ Len(ctxChannels) = 2
    /\ ctxChannels[1].fileHash = "a"
    /\ ctxChannels[2].fileHash = "b"
    /\ selectedChannels = [i \in 1..2 |->
           [id |-> ChannelHash(ctxChannels[i]), channelRef |-> ctxChannels[i]]]

\* the channels context holds a channel of a removed file only next to the
\* same stale row in the table's selectedChannels
StaleChannelComesFromStaleRow ==
    \A c \in 1..Len(ctxChannels) :
        BelongsToLoadedFile(ctxChannels[c])
            \/ \E i \in 1..Len(selectedChannels) :
                   selectedChannels[i].channelRef = ctxChannels[c]

\* handleSelectionChange and clearSelection leave only channels of loaded
\* files, whatever the table held before
SelectionChangeFilters ==
    [][(HandleSelectionChange \/ ClearSelection)
           => \A c \in 1..Len(ctxChannels') :
                  \E f \in 1..Len(ctxFiles') : ctxFiles'[f].hash = ctxChannels'[c].fileHash]_vars

=============================================================================
